---------------------------- MODULE Spec2Model ----------------------------
(***************************************************************************)
(* mini_ecom2: the accounts application (registration, password and social *)
(* login with a second factor, phone verification by SMS code).            *)
(*                                                                         *)
(* The state is the database tables the handlers read and write (users,    *)
(* EmailAddress rows, TOTP devices, static backup tokens, PhoneVerification *)
(* rows), the cache, the caller's server-side session, and `last`: the     *)
(* request just served together with the response it got.  One action is   *)
(* one HTTP handler, taken as a whole.                                     *)
(*                                                                         *)
(* Library calls are modelled by their contract:                           *)
(*   TOTPDevice.verify_token  : accepts the code the device's key yields   *)
(*   StaticDevice.verify_token: deletes the matching token and accepts     *)
(*   django.contrib.auth.login/logout: bind / flush the session            *)
(*   StaticToken.random_token, the TOTP key: fresh values                  *)
(***************************************************************************)
EXTENDS Integers, Sequences, FiniteSets, TLC

\* ------------------------------------------------------------------ bounds
MaxUsers == 2
MaxSignups == 1
MaxDevices == 2
MaxBackupSets == 2
TriedPerSet == 1
MaxCodes == 6
MaxPending == 2
MaxTries == 2
MaxCarts == 2
MaxOrders == 2
MaxCheckouts == 1
MaxQty == 2
MaxLine == 2
MaxAddresses == 3
MaxWorkers == 2
MaxRaceCodes == 1

\* -------------------------------------------------------- program constants
\* views.py:569  for _ in range(10)
BACKUP_CODES == 10

\* ------------------------------------------------------------- input sets
UserIds == 1..MaxUsers
Sessions == {"s1"}
Providers == {"google", "facebook"}
NoUser == 0

\* str.lower() on the e-mail addresses and user names the model uses
Lower(s) ==
    CASE s = "A@x.com" -> "a@x.com"
      [] s = "ANN" -> "ann"
      [] OTHER -> s

\* what a client may send to the registration endpoint
RegInputs ==
    { [email |-> "a@x.com", username |-> "ann", phone |-> "+111", password |-> "pw1"],
      [email |-> "b@x.com", username |-> "bob", phone |-> "+222", password |-> "pw2"],
      [email |-> "A@x.com", username |-> "amy", phone |-> "+222", password |-> "pw2"] }

LoginEmails == {"none", "a@x.com", "b@x.com"}
LoginNames == {"none", "ann"}
Passwords == {"pw1", "pw2"}

\* A submitted second-factor code after .strip().replace(" ", ""):
\*   <<"d6", k>>   six digits: the code TOTP device k's key yields now
\*                 (k = 0: six digits no device yields)
\*   <<"b32", n>>  the n-th static token ever generated (n = 0: never issued)
\*   <<"blank">>   missing or empty
Blank == <<"blank">>
D6(k) == <<"d6", k>>
B32(n) == <<"b32", n>>
IsD6(c) == c[1] = "d6"
StaticInputs == {0} \cup { (g - 1) * BACKUP_CODES + i : g \in 1..MaxBackupSets, i \in 1..TriedPerSet }
Codes == {Blank} \cup { D6(k) : k \in 0..MaxDevices } \cup { B32(n) : n \in StaticInputs }

VARIABLES
    users,      \* CustomUser rows, index = pk
    totp,       \* TOTPDevice rows, index = id; user = 0 once deleted
    static,     \* StaticDevice "backup" per user and its token_set
    nextToken,  \* number of static tokens generated so far
    session,    \* the server-side session of each client
    used,       \* static tokens accepted so far (history)
    use_redis,  \* settings.PHONE_VERIFICATION['USE_REDIS']
    now,        \* the clock, in minutes
    rows,       \* PhoneVerification rows, oldest first
    cache,      \* the cache entries of the SMS service
    nextCode,   \* number of verification codes generated so far
    last,       \* the request just served and its response
    stage,      \* how far the requests so far follow the sign-up journey (history)
    products,   \* Product rows, index = id
    carts,      \* Cart rows with their CartItem rows, index = id
    orders,     \* Order rows with their OrderItem rows, index = id
    addresses,  \* ShippingAddress rows, index = id
    stripe,     \* settings.STRIPE_SECRET_KEY and STRIPE_WEBHOOK_SECRET are set
    work        \* the requests in flight: what each has read and not yet written

vars == <<users, totp, static, nextToken, session, used,
          use_redis, now, rows, cache, nextCode, last, stage,
          products, carts, orders, addresses, stripe, work>>

\* what the handlers of the accounts leave alone
shopVars == <<products, carts, orders, addresses, stripe>>

\* what the handlers of login and second-factor setup leave alone
phoneVars == <<use_redis, now, rows, cache, nextCode>>

\* ---------------------------------------------------------------- helpers
\* a request in flight keeps what it loaded: the number stored on its user,
\* the row and its attempts, the counter it read, the cart of a checkout with
\* its address and guest e-mail, the lines of the cart and the stock of the
\* products as it saw them
Workers == 1..MaxWorkers
Idle == [pc |-> "idle", user |-> 0, phone |-> "none", stored |-> "none", code |-> 0,
         row |-> 0, attempts |-> 0, count |-> 0, cart |-> 0, address |-> 0,
         email |-> FALSE, lines |-> <<>>, stock |-> <<>>]
NoWork == [w \in Workers |-> Idle]

Pks == 1..Len(users)

NoStatic == [exists |-> FALSE, tokens |-> {}]

EmptySession == [auth |-> NoUser, otp_verified |-> FALSE, pending |-> NoUser,
                 requires_2fa |-> FALSE, provider |-> "none"]

\* `last`: the handler that ran (op), the user the request named or
\* resolved to (user) and the response: HTTP status, outcome (kind), the user
\* access and refresh tokens were returned for (tokens), and the payload
\* fields user_id, provider, backup_codes (codes) and retry_after (wait);
\* for the second step of a login also the code the request carried (code)
NoRequest == [op |-> "init", user |-> NoUser, status |-> 0, kind |-> "none",
              tokens |-> NoUser, user_id |-> NoUser, provider |-> "none", codes |-> {},
              wait |-> 0, code |-> Blank]

Resp(op, u, status, kind) ==
    [NoRequest EXCEPT !.op = op, !.user = u, !.status = status, !.kind = kind]

\* the phone numbers requests name
Phones == {"+111"}
\* the instants at which requests arrive
Instants == {0, 2, 11, 61}

NoCount == [count |-> 0, until |-> 0]
NoPending == [code |-> 0, user_id |-> NoUser, until |-> 0]
EmptyCache == [codes_sent |-> [p \in Phones |-> NoCount],
               verify_attempts |-> [p \in Phones |-> NoCount],
               pending_code |-> [p \in Phones |-> NoPending]]

\* django_otp.user_has_device(user, confirmed=True): any confirmed device,
\* TOTP or static (a StaticDevice is created confirmed)
ConfirmedTotp(u) == { d \in 1..Len(totp) : totp[d].user = u /\ totp[d].confirmed }

\* variant of user_has_device: unconfirmed devices count too
HasAnyDevice(u) == (\E d \in 1..Len(totp) : totp[d].user = u) \/ static[u].exists

user_has_device(u) == ConfirmedTotp(u) # {} \/ static[u].exists

\* The sign-up journey, as a monitor over the responses: register, login
\* refused for the unverified e-mail, e-mail verified, login with tokens,
\* second-factor setup begun, setup confirmed with ten backup codes, login
\* challenged, wrong code refused, TOTP code accepted.  `stage` names the
\* last step of the journey seen, "off" once a request departs from it; the
\* journey is that of user 1, registered as a@x.com with the password pw1.
Journey ==
    << "start", "registered", "refused", "verified", "logged_in", "setup",
       "confirmed", "challenged", "rejected", "done" >>

StepSeen(name, l, us) ==
    CASE name = "registered" ->
            l.op = "register" /\ l.status = 201
            /\ us[1].email = "a@x.com" /\ us[1].password = "pw1"
      [] name = "refused" ->
            l.op = "login" /\ l.kind = "verification_required" /\ l.tokens = NoUser
      [] name = "verified" -> l.op = "mark_email_verified"
      [] name = "logged_in" -> l.op = "login" /\ l.status = 200 /\ l.tokens # NoUser
      [] name = "setup" -> l.op = "setup" /\ l.status = 200
      [] name = "confirmed" ->
            l.op = "confirm" /\ l.status = 200 /\ Cardinality(l.codes) = 10
      [] name = "challenged" ->
            l.op = "login" /\ l.status = 202 /\ l.kind = "requires_2fa" /\ l.tokens = NoUser
      [] name = "rejected" ->
            l.op = "login_verify" /\ l.status = 400 /\ l.kind = "invalid_code"
            /\ l.tokens = NoUser
      [] name = "done" ->
            l.op = "login_verify" /\ l.status = 200 /\ l.kind = "ok" /\ l.tokens # NoUser
      [] OTHER -> FALSE

StageAfter(name) ==
    IF \E k \in 1..(Len(Journey) - 1) : Journey[k] = name
    THEN Journey[(CHOOSE k \in 1..(Len(Journey) - 1) : Journey[k] = name) + 1]
    ELSE "off"

Observe(l, us) ==
    IF l.user = 1 /\ StepSeen(StageAfter(stage), l, us) THEN StageAfter(stage) ELSE "off"

\* the catalogue: discount_price 0 stands for no discount price
Catalogue ==
    << [price |-> 3, discount_price |-> 0, stock_quantity |-> 2, is_active |-> TRUE],
       [price |-> 5, discount_price |-> 4, stock_quantity |-> 1, is_active |-> TRUE],
       [price |-> 2, discount_price |-> 0, stock_quantity |-> 1, is_active |-> FALSE] >>

\* no cart, order or address yet, no Stripe key configured
EmptyShop ==
    /\ products = Catalogue
    /\ carts = <<>>
    /\ orders = <<>>
    /\ addresses = <<>>
    /\ stripe = [secret_key |-> FALSE, webhook_secret |-> FALSE]

Init ==
    /\ users = <<>>
    /\ totp = <<>>
    /\ static = [u \in UserIds |-> NoStatic]
    /\ nextToken = 0
    /\ session = [s \in Sessions |-> EmptySession]
    /\ used = {}
    /\ use_redis = FALSE
    /\ now = 0
    /\ rows = <<>>
    /\ cache = EmptyCache
    /\ nextCode = 0
    /\ last = NoRequest
    /\ stage = "start"
    /\ work = NoWork
    /\ EmptyShop

\* ------------------------------------------------------------ registration
\* CustomRegisterSerializer.validate_email / validate_username /
\* validate_phone_number, then save and CustomAccountAdapter.save_user
\* variant of RegisterValid: the e-mail addresses are compared as written
ExactEmailValid(r) ==
    /\ \A u \in Pks : users[u].email # r.email
    /\ \A u \in Pks : Lower(users[u].username) # Lower(r.username)
    /\ \A u \in Pks : users[u].phone # r.phone

RegisterValid(r) ==
    /\ \A u \in Pks : Lower(users[u].email) # Lower(r.email)
    /\ \A u \in Pks : Lower(users[u].username) # Lower(r.username)
    /\ \A u \in Pks : users[u].phone # r.phone

NewUser(r) ==
    [email |-> Lower(r.email), username |-> r.username, password |-> r.password,
     is_active |-> FALSE, ea |-> "unverified",
     phone |-> r.phone, phone_verified |-> FALSE]

\* the registration endpoint
SignUp(r) ==
    /\ IF RegisterValid(r)
       THEN /\ users' = Append(users, NewUser(r))
            /\ last' = Resp("register", Len(users) + 1, 201, "created")
       ELSE /\ users' = users
            /\ last' = Resp("register", NoUser, 400, "duplicate")
    /\ UNCHANGED <<totp, static, nextToken, session, used>>
    /\ UNCHANGED phoneVars
    /\ stage' = Observe(last', users')
    /\ UNCHANGED work
    /\ UNCHANGED shopVars

\* ... while the user table has room for the sign-ups explored
Register(r) ==
    /\ Len(users) < MaxSignups
    /\ SignUp(r)

\* ------------------------------------------------------ e-mail confirmation
\* The confirmation link is served by the account library: it marks the
\* user's EmailAddress verified.  Whether it also activates the account is
\* left open (the login serializer activates a verified user itself).
MarkEmailVerified(u, activate) ==
    /\ u \in Pks
    /\ users[u].ea # "none"
    /\ users' = [users EXCEPT ![u].ea = "verified",
                              ![u].is_active = (@ \/ activate)]
    /\ last' = Resp("mark_email_verified", u, 200, "ok")
    /\ UNCHANGED <<totp, static, nextToken, session, used>>
    /\ UNCHANGED phoneVars
    /\ stage' = Observe(last', users')
    /\ UNCHANGED work
    /\ UNCHANGED shopVars

\* ------------------------------------------------------------ library calls
\* django.contrib.auth.login: bind the session to the user; a session that
\* belongs to another user is flushed first
DjangoLogin(sess, u) ==
    IF sess.auth \notin {NoUser, u}
    THEN [EmptySession EXCEPT !.auth = u]
    ELSE [sess EXCEPT !.auth = u]

\* variant of check_password: every password matches
AnyPassword(u, pw) == TRUE

\* user.check_password
check_password(u, pw) == users[u].password = pw

\* variant of VerifyTotp: the code is checked against the wrong key
VerifyNextTotp(d, code) == code = D6(d + 1)

\* TOTPDevice.verify_token of device d
VerifyTotp(d, code) == code = D6(d)

\* StaticDevice.verify_token: is the token in the device's token_set
StaticMatch(u, code) ==
    /\ static[u].exists
    /\ code[1] = "b32"
    /\ code[2] \in static[u].tokens

\* variant of StaticConsume: the matched token is not deleted
KeepToken(u, code) == static

\* ... and the token_set after the match was deleted
StaticConsume(u, code) ==
    [static EXCEPT ![u].tokens = @ \ {code[2]}]

\* ------------------------------------------------------------ password login
\* CustomLoginSerializer.validate: resolve by e-mail, then by user name
ResolveUser(email, username) ==
    IF email # "none" /\ \E u \in Pks : users[u].email = email
    THEN CHOOSE u \in Pks : users[u].email = email
    ELSE IF username # "none" /\ \E u \in Pks : users[u].username = username
         THEN CHOOSE u \in Pks : users[u].username = username
         ELSE NoUser

\* variant of EmailVerified: any EmailAddress row counts, verified or not
AnyEmailAddress(u) == users[u].ea # "none"

\* the gate of CustomLoginSerializer.validate between the password check
\* and the second-factor check
EmailVerified(u) == users[u].ea = "verified"

\* variant of InvalidCredentials: the password of a known user is not checked
UnknownOnly(u, pw) == u = NoUser

\* CustomLoginSerializer.validate: "Invalid credentials" for no user and for
\* a password that does not match
InvalidCredentials(u, pw) == u = NoUser \/ ~check_password(u, pw)

\* variant of Activate: the account is left as it is
NoActivate(u) == users

\* CustomLoginSerializer.validate: if not user.is_active, set it and save
Activate(u) == [users EXCEPT ![u].is_active = TRUE]

\* CustomLoginView.post for a request that carries credentials
Login(s, email, username, password) ==
    LET u == ResolveUser(email, username) IN
    /\ UNCHANGED <<totp, static, nextToken, used>>
    /\ UNCHANGED phoneVars
    /\ IF InvalidCredentials(u, password)
       THEN /\ last' = Resp("login", u, 400, "invalid_credentials")
            /\ UNCHANGED <<users, session>>
       ELSE IF ~EmailVerified(u)
       THEN /\ last' = Resp("login", u, 400, "verification_required")
            /\ UNCHANGED <<users, session>>
       ELSE /\ users' = Activate(u)
            /\ IF user_has_device(u)
               THEN /\ last' = [Resp("login", u, 202, "requires_2fa") EXCEPT !.user_id = u]
                    /\ UNCHANGED session
               ELSE /\ session' = [session EXCEPT ![s] = DjangoLogin(@, u)]
                    /\ last' = [Resp("login", u, 200, "ok") EXCEPT !.tokens = u]
    /\ stage' = Observe(last', users')
    /\ UNCHANGED work
    /\ UNCHANGED shopVars

\* ------------------------------------------------------- second-factor check
\* raw_otp = data.get("otp_token") or data.get("token")
RawOtp(req) == IF req.otp_token # Blank THEN req.otp_token ELSE req.token

\* variant of SecondFactor: the result of verify_token is not looked at
UncheckedTotp(u, code) ==
    IF IsD6(code) THEN "totp"
    ELSE IF StaticMatch(u, code) THEN "backup"
    ELSE "invalid"

\* The TOTP-then-backup cascade shared by both verify_2fa_and_login methods:
\*   "totp"   the confirmed TOTP device accepted the six digits
\*   "backup" a static token matched (and is consumed)
\*   "crash"  TOTPDevice.objects.get found several confirmed devices
\*   "invalid" otherwise
SecondFactor(u, code) ==
    IF IsD6(code) /\ Cardinality(ConfirmedTotp(u)) > 1 THEN "crash"
    ELSE IF IsD6(code) /\ \E d \in ConfirmedTotp(u) : VerifyTotp(d, code) THEN "totp"
    ELSE IF StaticMatch(u, code) THEN "backup"
    ELSE "invalid"

\* requests of the second step: a user id (0: none) and a code under one of
\* the two keys, with or without the key "otp_verified"
OneKeyRequests ==
    { [user_id |-> u, otp_token |-> a, token |-> Blank, key |-> k] :
        u \in 0..MaxUsers, a \in Codes, k \in BOOLEAN }
    \cup { [user_id |-> u, otp_token |-> Blank, token |-> b, key |-> k] :
             u \in UserIds, b \in Codes \ {Blank}, k \in BOOLEAN }

\* if 'otp_verified' in request.data and 'user_id' in request.data
IsVerifyStep(req) == req.key /\ req.user_id # NoUser

\* the outcomes for which `last` keeps the submitted code: those decided by
\* the code, and the session check of the social flow
CodeKinds == {"ok", "ok_backup", "invalid_code", "server_error", "session_mismatch"}

\* CustomLoginView.post for a request of the second step
LoginVerify(s, req) ==
    LET u == req.user_id
        code == RawOtp(req)
        R(status, kind, tok) ==
            [Resp("login_verify", u, status, kind) EXCEPT
                !.tokens = tok, !.code = IF kind \in CodeKinds THEN code ELSE Blank]
    IN
    /\ UNCHANGED <<totp, nextToken, users>>
    /\ UNCHANGED phoneVars
    /\ IF ~IsVerifyStep(req)
       THEN \* falls through to the login serializer: no password in the request
            /\ last' = R(400, "bad_request", NoUser)
            /\ UNCHANGED <<static, session, used>>
       ELSE IF code = Blank
       THEN /\ last' = R(400, "required", NoUser)
            /\ UNCHANGED <<static, session, used>>
       ELSE IF u \notin Pks
       THEN /\ last' = R(200, "invalid_user", NoUser)
            /\ UNCHANGED <<static, session, used>>
       ELSE IF ~users[u].is_active
       THEN /\ last' = R(403, "disabled", NoUser)
            /\ UNCHANGED <<static, session, used>>
       ELSE LET sf == SecondFactor(u, code) IN
            IF sf \in {"totp", "backup"}
            THEN /\ static' = IF sf = "backup" THEN StaticConsume(u, code) ELSE static
                 /\ session' = [session EXCEPT ![s] =
                                   [DjangoLogin(@, u) EXCEPT !.otp_verified = TRUE]]
                 /\ used' = IF sf = "backup" THEN used \cup {code[2]} ELSE used
                 /\ last' = R(200, IF sf = "backup" THEN "ok_backup" ELSE "ok", u)
            ELSE /\ last' = R(IF sf = "crash" THEN 500 ELSE 400,
                              IF sf = "crash" THEN "server_error" ELSE "invalid_code",
                              NoUser)
                 /\ UNCHANGED <<static, session, used>>
    /\ stage' = Observe(last', users')
    /\ UNCHANGED work
    /\ UNCHANGED shopVars

\* ---------------------------------------------------- second-factor setup
\* permission_classes = [IsAuthenticated]: request.user is the user the
\* caller's session is bound to
Authenticated(s, u) == u # NoUser /\ session[s].auth = u

\* TwoFactorSetupView.get
TwoFactorSetup(s, u) ==
    /\ Authenticated(s, u)
    /\ UNCHANGED <<users, static, nextToken, session, used>>
    /\ UNCHANGED phoneVars
    /\ IF user_has_device(u)
       THEN /\ last' = Resp("setup", u, 400, "already_enabled")
            /\ UNCHANGED totp
       ELSE /\ Len(totp) < MaxDevices
            /\ totp' = Append(totp, [user |-> u, confirmed |-> FALSE])
            /\ last' = Resp("setup", u, 200, "ok")
    /\ stage' = Observe(last', users')
    /\ UNCHANGED work
    /\ UNCHANGED shopVars

\* generate_backup_codes: the tokens of the backup device are replaced by
\* BACKUP_CODES fresh ones
FreshTokens == (nextToken + 1)..(nextToken + BACKUP_CODES)

\* variant of generate_backup_codes: the earlier tokens are kept
AppendBackupCodes(u) ==
    [static EXCEPT ![u] = [exists |-> TRUE, tokens |-> static[u].tokens \cup FreshTokens]]

\* generate_backup_codes: get_or_create the backup device, delete its
\* token_set, create the fresh tokens
generate_backup_codes(u) ==
    [static EXCEPT ![u] = [exists |-> TRUE, tokens |-> FreshTokens]]

\* TwoFactorVerifySetupView.post
TwoFactorVerifySetup(s, u, device_id, token) ==
    LET R(status, kind) == Resp("confirm", u, status, kind) IN
    /\ Authenticated(s, u)
    /\ UNCHANGED <<users, session, used>>
    /\ UNCHANGED phoneVars
    /\ IF token = Blank
       THEN /\ last' = R(400, "required")
            /\ UNCHANGED <<totp, static, nextToken>>
       ELSE IF ~IsD6(token)
       THEN /\ last' = R(400, "not_six_digits")
            /\ UNCHANGED <<totp, static, nextToken>>
       ELSE IF ~(device_id \in 1..Len(totp) /\ totp[device_id].user = u
                 /\ ~totp[device_id].confirmed)
       THEN /\ last' = R(400, "invalid_device")
            /\ UNCHANGED <<totp, static, nextToken>>
       ELSE IF VerifyTotp(device_id, token)
       THEN /\ nextToken < MaxBackupSets * BACKUP_CODES
            /\ totp' = [totp EXCEPT ![device_id].confirmed = TRUE]
            /\ static' = generate_backup_codes(u)
            /\ nextToken' = nextToken + BACKUP_CODES
            /\ last' = [R(200, "ok") EXCEPT !.codes = FreshTokens]
       ELSE /\ last' = R(400, "invalid_code")
            /\ UNCHANGED <<totp, static, nextToken>>
    /\ stage' = Observe(last', users')
    /\ UNCHANGED work
    /\ UNCHANGED shopVars

\* variant of TwoFactorDisable: the backup device is not deleted
DisableKeepsBackup(s, u, password) ==
    /\ Authenticated(s, u)
    /\ UNCHANGED <<users, nextToken, session, used, static>>
    /\ UNCHANGED phoneVars
    /\ IF ~check_password(u, password)
       THEN /\ last' = Resp("disable", u, 400, "invalid_password")
            /\ UNCHANGED totp
       ELSE /\ totp' = [d \in 1..Len(totp) |->
                          IF totp[d].user = u
                          THEN [user |-> NoUser, confirmed |-> FALSE]
                          ELSE totp[d]]
            /\ last' = Resp("disable", u, 200, "ok")
    /\ stage' = Observe(last', users')
    /\ UNCHANGED work
    /\ UNCHANGED shopVars

\* TwoFactorDisableView.post
TwoFactorDisable(s, u, password) ==
    /\ Authenticated(s, u)
    /\ UNCHANGED <<users, nextToken, session, used>>
    /\ UNCHANGED phoneVars
    /\ IF ~check_password(u, password)
       THEN /\ last' = Resp("disable", u, 400, "invalid_password")
            /\ UNCHANGED <<totp, static>>
       ELSE /\ totp' = [d \in 1..Len(totp) |->
                          IF totp[d].user = u
                          THEN [user |-> NoUser, confirmed |-> FALSE]
                          ELSE totp[d]]
            /\ static' = [static EXCEPT ![u] = NoStatic]
            /\ last' = Resp("disable", u, 200, "ok")
    /\ stage' = Observe(last', users')
    /\ UNCHANGED work
    /\ UNCHANGED shopVars

\* ------------------------------------------------------------ e-mail change
ChangeEmails == {"A@x.com", "c@x.com"}

\* EmailChangeSerializer.validate_new_email and validate
EmailChangeValid(u, new_email, password) ==
    /\ Lower(new_email) # Lower(users[u].email)
    /\ \A v \in Pks : Lower(users[v].email) # Lower(new_email)
    /\ check_password(u, password)

\* ChangeEmailView.post; `sent`: whether the confirmation mail went out
\* (a failure rolls the transaction back)
ChangeEmail(s, u, new_email, password, sent) ==
    /\ Authenticated(s, u)
    /\ UNCHANGED <<totp, static, nextToken, session, used>>
    /\ UNCHANGED phoneVars
    /\ IF ~EmailChangeValid(u, new_email, password)
       THEN /\ last' = Resp("change_email", u, 400, "invalid")
            /\ UNCHANGED users
       ELSE IF ~sent
       THEN /\ last' = Resp("change_email", u, 500, "server_error")
            /\ UNCHANGED users
       ELSE /\ users' = [users EXCEPT ![u].email = Lower(new_email),
                                      ![u].is_active = FALSE,
                                      ![u].ea = "unverified"]
            /\ last' = Resp("change_email", u, 200, "ok")
    /\ stage' = Observe(last', users')
    /\ UNCHANGED work
    /\ UNCHANGED shopVars

\* --------------------------------------------------------------- social login
\* What the provider exchange and the account lookup of one request yield:
\*   "error"   the provider rejects the token (OAuth2Error)
\*   "signup"  no account and no user yet: the library creates the user
\*   "user"    an existing user, through a social account that exists already
\*             (is_existing) or is created in this request
\* `raises`: whether the ImmediateHttpResponse of the adapter reaches the view
\* or is turned into a return value inside the library, which then goes on to
\* log the user in; both are outcomes the installed library may produce.
Exchanges ==
    { [kind |-> "user", user |-> u, is_existing |-> e, raises |-> r] :
        u \in UserIds, e \in BOOLEAN, r \in BOOLEAN }
    \cup { [kind |-> k, user |-> NoUser, is_existing |-> FALSE, raises |-> FALSE] :
             k \in {"error", "signup"} }

\* the user a provider sign-up creates: no usable password, active
SocialUser ==
    [email |-> "s@x.com", username |-> "sam", password |-> "unusable",
     is_active |-> TRUE, ea |-> "verified", phone |-> "none", phone_verified |-> FALSE]

\* variant of ExchangeFails: the failure of the exchange is not noticed
NeverFails(x) == FALSE

\* the token exchange or the user-info request of the provider fails:
\* OAuth2Error in the view, or the serializer's ValidationError
ExchangeFails(x) == x.kind = "error"

\* CustomSocialAccountAdapter.pre_social_login: is the challenge raised
Enforces(x) == x.kind = "user" /\ user_has_device(x.user)

\* CustomSocialAccountAdapter._enforce_social_2fa: the session keys it sets
\* before raising
EnforceKeys(sess, u, provider) ==
    [sess EXCEPT !.pending = u, !.requires_2fa = TRUE, !.provider = provider]

\* SocialLogin2FAMixin.post, lines 74-111: logout, then the snapshot of the
\* three keys is written back (a key whose value is None is not)
ChallengeSession(sess, provider) ==
    [EmptySession EXCEPT !.pending = sess.pending, !.requires_2fa = TRUE,
                         !.provider = IF sess.provider # "none" THEN sess.provider ELSE provider]

\* SocialLogin2FAMixin.post for a request of the first step (GoogleLogin and
\* FacebookLogin differ in provider_name only)
SocialLogin(s, provider, x) ==
    LET popped == [session[s] EXCEPT !.otp_verified = FALSE]
        u == IF x.kind = "signup" THEN Len(users) + 1 ELSE x.user
        keyed == IF Enforces(x) THEN EnforceKeys(popped, u, provider) ELSE popped
        logged == DjangoLogin(keyed, u)
        R(status, kind) == Resp("social_login", IF x.kind = "error" THEN NoUser ELSE u, status, kind)
    IN
    /\ x.kind = "user" => x.user \in Pks
    /\ x.kind = "signup" => Len(users) < MaxUsers
    /\ UNCHANGED <<totp, static, nextToken, used>>
    /\ UNCHANGED phoneVars
    /\ users' = IF x.kind = "signup" THEN Append(users, SocialUser) ELSE users
    /\ IF ExchangeFails(x)
       THEN /\ session' = [session EXCEPT ![s] = popped]
            /\ last' = R(400, "provider_error")
       ELSE IF Enforces(x) /\ x.raises
       THEN \* except ImmediateHttpResponse: return exc.response
            /\ session' = [session EXCEPT ![s] = keyed]
            /\ last' = [R(202, "requires_2fa") EXCEPT !.user_id = u, !.provider = provider]
       ELSE IF logged.requires_2fa /\ ~logged.otp_verified
       THEN /\ session' = [session EXCEPT ![s] = ChallengeSession(logged, provider)]
            /\ last' = [R(202, "requires_2fa") EXCEPT
                           !.user_id = logged.pending,
                           !.provider = ChallengeSession(logged, provider).provider]
       ELSE /\ session' = [session EXCEPT ![s] = logged]
            /\ last' = [R(200, "ok") EXCEPT !.tokens = u]
    /\ stage' = Observe(last', users')
    /\ UNCHANGED work
    /\ UNCHANGED shopVars

\* SocialLogin2FAMixin.complete_login: the session after login() and the pops
CompleteSocialLogin(sess, u) ==
    [DjangoLogin(sess, u) EXCEPT !.otp_verified = TRUE, !.pending = NoUser,
                                 !.requires_2fa = FALSE, !.provider = "none"]

\* variant of SessionMatches: the submitted id is not compared
AnyPending(sess, u) == sess.pending # NoUser

\* verify_2fa_and_login: the pending user id of the session is the submitted one
SessionMatches(sess, u) == sess.pending # NoUser /\ sess.pending = u

\* SocialLogin2FAMixin.post for a request of the second step, and
\* verify_2fa_and_login
SocialVerify(s, req) ==
    LET u == req.user_id
        code == RawOtp(req)
        popped == [session[s] EXCEPT !.otp_verified = FALSE]
        R(status, kind, tok) ==
            [Resp("social_verify", u, status, kind) EXCEPT
                !.tokens = tok, !.code = IF kind \in CodeKinds THEN code ELSE Blank]
        Reject(status, kind) ==
            /\ last' = R(status, kind, NoUser)
            /\ session' = [session EXCEPT ![s] = popped]
            /\ UNCHANGED <<static, used>>
    IN
    /\ UNCHANGED <<totp, nextToken, users>>
    /\ UNCHANGED phoneVars
    /\ IF ~IsVerifyStep(req)
       THEN \* handed to the library: the request carries no provider token
            Reject(400, "bad_request")
       ELSE IF code = Blank
       THEN Reject(400, "required")
       ELSE IF ~SessionMatches(popped, u)
       THEN Reject(400, "session_mismatch")
       ELSE IF u \notin Pks
       THEN Reject(200, "invalid_user")
       ELSE LET sf == SecondFactor(u, code) IN
            IF sf \in {"totp", "backup"}
            THEN /\ static' = IF sf = "backup" THEN StaticConsume(u, code) ELSE static
                 /\ session' = [session EXCEPT ![s] = CompleteSocialLogin(popped, u)]
                 /\ used' = IF sf = "backup" THEN used \cup {code[2]} ELSE used
                 /\ last' = R(200, IF sf = "backup" THEN "ok_backup" ELSE "ok", u)
            ELSE Reject(IF sf = "crash" THEN 500 ELSE 400,
                        IF sf = "crash" THEN "server_error" ELSE "invalid_code")
    /\ stage' = Observe(last', users')
    /\ UNCHANGED work
    /\ UNCHANGED shopVars

\* ----------------------------------------------------------------- session
\* the session store drops a session at the end of its lifetime
SessionExpire(s) ==
    /\ session[s] # EmptySession
    /\ session' = [session EXCEPT ![s] = EmptySession]
    /\ last' = Resp("session_expire", NoUser, 0, "none")
    /\ UNCHANGED <<users, totp, static, nextToken, used>>
    /\ UNCHANGED phoneVars
    /\ stage' = Observe(last', users')
    /\ UNCHANGED work
    /\ UNCHANGED shopVars

\* ---------------------------------------------------------- phone numbers
\* settings.PHONE_VERIFICATION, in minutes where the code counts seconds
RATE_LIMIT_CODES_PER_HOUR == 5
RATE_LIMIT_VERIFICATIONS_PER_MINUTE == 5
CODE_EXPIRY_MINUTES == 10
\* models.py:107  self.attempts < 5
MAX_ATTEMPTS == 5
\* sms.py:89 timeout=3600, sms.py:100 timedelta(hours=1)
HOUR == 60
\* sms.py:169 timeout=60
MINUTE == 1

\* cache.get: an entry is gone once its timeout has passed
Live(e) == now < e.until
CacheCount(e) == IF Live(e) THEN e.count ELSE 0

\* the code a submitted value stands for: 0 is six digits that were never
\* sent, k > 0 the k-th code generated
SubmittedCodes == 0..MaxCodes

\* variant of PhoneTaken: the owner of the number is not looked up
NeverTaken(u, p) == FALSE

\* PhoneNumberSerializer.validate_phone_number
PhoneTaken(u, p) == \E v \in Pks : v # u /\ users[v].phone = p /\ users[v].phone_verified

\* SMSService._can_send_code_redis
can_send_code_redis(p) ==
    IF CacheCount(cache.codes_sent[p]) >= RATE_LIMIT_CODES_PER_HOUR
    THEN [allowed |-> FALSE, wait_seconds |-> 60 * HOUR]
    ELSE [allowed |-> TRUE, wait_seconds |-> 0]

\* SMSService._can_send_code_db
RecentCodes(p) == { i \in 1..Len(rows) : rows[i].phone = p /\ rows[i].created_at >= now - HOUR }
Oldest(S) == CHOOSE i \in S : \A j \in S : i <= j
Max0(n) == IF n > 0 THEN n ELSE 0
can_send_code_db(p) ==
    IF Cardinality(RecentCodes(p)) >= RATE_LIMIT_CODES_PER_HOUR
    THEN [allowed |-> FALSE,
          wait_seconds |-> Max0(60 * (rows[Oldest(RecentCodes(p))].created_at + HOUR - now))]
    ELSE [allowed |-> TRUE, wait_seconds |-> 0]

\* SMSService.can_send_code
can_send_code(p) == IF use_redis THEN can_send_code_redis(p) ELSE can_send_code_db(p)

\* SMSService.store_verification_code: the row, and the cache entry
NewRow(u, p, code) ==
    [user |-> u, phone |-> p, code |-> code, created_at |-> now,
     expires_at |-> now + CODE_EXPIRY_MINUTES, verified |-> FALSE, attempts |-> 0,
     wrong |-> 0, compared |-> 0]
StoreInCache(c, u, p, code) ==
    IF use_redis
    THEN [c EXCEPT !.pending_code[p] =
              [code |-> code, user_id |-> u, until |-> now + CODE_EXPIRY_MINUTES]]
    ELSE c

\* SMSService.increment_code_sent_count
increment_code_sent_count(c, p) ==
    IF use_redis
    THEN [c EXCEPT !.codes_sent[p] =
              [count |-> CacheCount(c.codes_sent[p]) + 1, until |-> now + HOUR]]
    ELSE c

\* send_verification_code (the view) around send_phone_verification;
\* `sms_ok`: whether the gateway accepted the message
SendCode(s, u, p, sms_ok) ==
    LET R(status, kind) == Resp("send_code", u, status, kind)
        can == can_send_code(p)
        code == nextCode + 1
    IN
    /\ Authenticated(s, u)
    /\ UNCHANGED <<totp, static, nextToken, session, used, use_redis, now>>
    /\ IF PhoneTaken(u, p)
       THEN /\ last' = R(400, "invalid")
            /\ UNCHANGED <<users, rows, cache, nextCode>>
       ELSE IF ~can.allowed
       THEN /\ last' = [R(429, "rate_limited") EXCEPT !.wait = can.wait_seconds]
            /\ UNCHANGED <<users, rows, cache, nextCode>>
       ELSE /\ nextCode < MaxCodes
            /\ nextCode' = code
            /\ IF ~sms_ok
               THEN \* verification.delete(); the cache entry stays
                    /\ cache' = StoreInCache(cache, u, p, code)
                    /\ last' = R(500, "sms_failed")
                    /\ UNCHANGED <<users, rows>>
               ELSE /\ rows' = Append(rows, NewRow(u, p, code))
                    /\ IF users[u].phone = p
                       THEN \* no branch of the view returns a response
                            /\ cache' = StoreInCache(cache, u, p, code)
                            /\ last' = R(500, "no_response")
                            /\ UNCHANGED users
                       ELSE IF \E v \in Pks : v # u /\ users[v].phone = p
                       THEN \* user.save(): phone_number is unique
                            /\ cache' = StoreInCache(cache, u, p, code)
                            /\ last' = R(500, "server_error")
                            /\ UNCHANGED users
                       ELSE /\ users' = [users EXCEPT ![u].phone = p,
                                                      ![u].phone_verified = FALSE]
                            /\ cache' = increment_code_sent_count(
                                            StoreInCache(cache, u, p, code), p)
                            /\ last' = R(200, "sent")
    /\ stage' = Observe(last', users')
    /\ UNCHANGED work
    /\ UNCHANGED shopVars

\* the newest row of (phone, user) that is not verified:
\* filter(...).order_by('-created_at').first()
Pending(u, p) == { i \in 1..Len(rows) :
                     rows[i].phone = p /\ rows[i].user = u /\ ~rows[i].verified }
Newest(S) == CHOOSE i \in S : \A j \in S : j <= i

\* PhoneVerification.is_expired, is_valid
is_expired(r) == now > r.expires_at
is_valid(r) == ~is_expired(r) /\ ~r.verified /\ r.attempts < MAX_ATTEMPTS

\* SMSService._verify_code_db: the outcome
verify_code_db(u, p, code) ==
    IF Pending(u, p) = {} THEN "no_pending"
    ELSE LET r == rows[Newest(Pending(u, p))] IN
         IF is_expired(r) THEN "expired"
         ELSE IF ~is_valid(r) THEN "too_many_attempts"
         ELSE IF r.code = code THEN "verified"
         ELSE "invalid_code"

\* variant of verify_code_redis: the per-minute counter is not consulted
VerifyUnlimited(u, p, code) ==
    IF ~Live(cache.pending_code[p]) THEN verify_code_db(u, p, code)
    ELSE IF cache.pending_code[p].code = code /\ cache.pending_code[p].user_id = u
    THEN "verified_cache"
    ELSE "invalid_code_cache"

\* SMSService._verify_code_redis: the outcome
verify_code_redis(u, p, code) ==
    IF CacheCount(cache.verify_attempts[p]) >= RATE_LIMIT_VERIFICATIONS_PER_MINUTE
    THEN "too_many_per_minute"
    ELSE IF ~Live(cache.pending_code[p]) THEN verify_code_db(u, p, code)
    ELSE IF cache.pending_code[p].code = code /\ cache.pending_code[p].user_id = u
    THEN "verified_cache"
    ELSE "invalid_code_cache"

\* SMSService.verify_code
verify_code(u, p, code) ==
    IF use_redis THEN verify_code_redis(u, p, code) ELSE verify_code_db(u, p, code)

\* the rows after the outcome: mark_verified / increment_attempts on the
\* newest pending row; `wrong` counts the wrong codes submitted against it,
\* `compared` the submitted codes that reached the comparison with its code
RowsAfter(u, p, code, outcome) ==
    IF Pending(u, p) = {} THEN rows
    ELSE LET i == Newest(Pending(u, p))
             w == IF rows[i].code # code /\ rows[i].wrong < MAX_ATTEMPTS
                  THEN rows[i].wrong + 1 ELSE rows[i].wrong
         IN [rows EXCEPT ![i].verified = (outcome \in {"verified", "verified_cache"}),
                         ![i].attempts = IF outcome = "invalid_code" THEN @ + 1 ELSE @,
                         ![i].wrong = w,
                         ![i].compared = IF outcome \in {"verified", "invalid_code"}
                                         THEN @ + 1 ELSE @]

\* the cache after the outcome: the attempt counter is written on every
\* call in cache mode and deleted, with the code, on a match in the cache
CacheAfter(p, outcome) ==
    IF ~use_redis THEN cache
    ELSE IF outcome = "verified_cache"
    THEN [cache EXCEPT !.pending_code[p] = NoPending, !.verify_attempts[p] = NoCount]
    ELSE [cache EXCEPT !.verify_attempts[p] =
              [count |-> IF CacheCount(@) < RATE_LIMIT_VERIFICATIONS_PER_MINUTE
                         THEN CacheCount(@) + 1
                         ELSE RATE_LIMIT_VERIFICATIONS_PER_MINUTE,
               until |-> now + MINUTE]]

\* variant of HeldByOther: the column is not unique
NeverHeld(u, p) == FALSE

\* CustomUser.phone_number is unique: saving the number on user u fails
\* while another user has it
HeldByOther(u, p) == \E v \in Pks : v # u /\ users[v].phone = p

\* _verify_code_redis, except Exception: _verify_code_db runs on the rows
\* as the failed attempt left them; its outcome and the rows after it
DbFallback(rs, u, p, code) ==
    LET pend == { i \in 1..Len(rs) : rs[i].phone = p /\ rs[i].user = u /\ ~rs[i].verified } IN
    IF pend = {} THEN [outcome |-> "no_pending", rows |-> rs]
    ELSE LET i == CHOOSE k \in pend : \A j \in pend : j <= k IN
         IF is_expired(rs[i]) THEN [outcome |-> "expired", rows |-> rs]
         ELSE IF ~is_valid(rs[i]) THEN [outcome |-> "too_many_attempts", rows |-> rs]
         ELSE IF rs[i].code = code
         THEN [outcome |-> "server_error",
               rows |-> [rs EXCEPT ![i].verified = TRUE, ![i].compared = @ + 1]]
         ELSE [outcome |-> "invalid_code",
               rows |-> [rs EXCEPT ![i].attempts = @ + 1,
                                   ![i].compared = @ + 1,
                                   ![i].wrong = IF @ < MAX_ATTEMPTS THEN @ + 1 ELSE @]]

\* verify_phone_number (the view): a failed verification ends in the call of
\* logger.warring, which the logger does not have.  When the code matches
\* and another user has the number, saving the user raises IntegrityError:
\* in mark_verified after the row was saved (in cache mode the service then
\* falls back to the rows), or in the view.
VerifyPhone(s, u, p, code) ==
    LET outcome == verify_code(u, p, code)
        matched == outcome \in {"verified", "verified_cache"}
        clash == matched /\ HeldByOther(u, p)
        rows1 == RowsAfter(u, p, code, outcome)
        fallback == clash /\ use_redis /\ Pending(u, p) # {}
        fb == DbFallback(rows1, u, p, code)
    IN
    /\ Authenticated(s, u)
    /\ UNCHANGED <<totp, static, nextToken, session, used, use_redis, now, nextCode>>
    /\ rows' = IF fallback THEN fb.rows ELSE rows1
    /\ cache' = CacheAfter(p, outcome)
    /\ IF matched /\ ~clash
       THEN /\ users' = [users EXCEPT ![u].phone = p, ![u].phone_verified = TRUE]
            /\ last' = Resp("verify_phone", u, 200, "verified")
       ELSE /\ users' = users
            /\ last' = Resp("verify_phone", u, 500,
                             IF fallback THEN fb.outcome
                             ELSE IF clash THEN "server_error"
                             ELSE outcome)
    /\ stage' = Observe(last', users')
    /\ UNCHANGED work
    /\ UNCHANGED shopVars

\* variant of set_phone: the verification flag is left as it is
SetPhoneOnly(u, p) == [users EXCEPT ![u].phone = p]

\* PhoneNumberUpdateSerializer.update: the number (or none) is stored and
\* the verification is reset
set_phone(u, p) == [users EXCEPT ![u].phone = p, ![u].phone_verified = FALSE]

\* update_phone_number; p = "none": the field is blank or missing
UpdatePhone(s, u, p) ==
    /\ Authenticated(s, u)
    /\ UNCHANGED <<totp, static, nextToken, session, used>>
    /\ UNCHANGED phoneVars
    /\ IF p # "none" /\ PhoneTaken(u, p)
       THEN /\ last' = Resp("update_phone", u, 400, "invalid")
            /\ users' = users
       ELSE IF p # "none" /\ HeldByOther(u, p)
       THEN \* instance.save(): phone_number is unique
            /\ last' = Resp("update_phone", u, 500, "server_error")
            /\ users' = users
       ELSE /\ users' = set_phone(u, p)
            /\ last' = Resp("update_phone", u, 200, "ok")
    /\ stage' = Observe(last', users')
    /\ UNCHANGED work
    /\ UNCHANGED shopVars

\* remove_phone_number
RemovePhone(s, u) ==
    /\ Authenticated(s, u)
    /\ users' = [users EXCEPT ![u].phone = "none", ![u].phone_verified = FALSE]
    /\ last' = Resp("remove_phone", u, 200, "ok")
    /\ UNCHANGED <<totp, static, nextToken, session, used>>
    /\ UNCHANGED phoneVars
    /\ stage' = Observe(last', users')
    /\ UNCHANGED work
    /\ UNCHANGED shopVars

\* time passes; entries whose timeout has passed leave the cache
Evict(e, t, none) == IF t < e.until THEN e ELSE none
Advance(t) ==
    /\ t > now
    /\ now' = t
    /\ cache' = [codes_sent |-> [p \in Phones |-> Evict(cache.codes_sent[p], t, NoCount)],
                 verify_attempts |-> [p \in Phones |-> Evict(cache.verify_attempts[p], t, NoCount)],
                 pending_code |-> [p \in Phones |-> Evict(cache.pending_code[p], t, NoPending)]]
    /\ last' = Resp("advance", NoUser, 0, "none")
    /\ UNCHANGED <<users, totp, static, nextToken, session, used, use_redis, rows, nextCode>>
    /\ stage' = Observe(last', users')
    /\ UNCHANGED work
    /\ UNCHANGED shopVars

Next ==
    \/ \E r \in RegInputs : Register(r)
    \/ \E u \in UserIds, a \in BOOLEAN : MarkEmailVerified(u, a)
    \/ \E s \in Sessions, e \in LoginEmails, n \in LoginNames, p \in Passwords :
          Login(s, e, n, p)
    \/ \E s \in Sessions, req \in OneKeyRequests : LoginVerify(s, req)
    \/ \E s \in Sessions, u \in UserIds : TwoFactorSetup(s, u)
    \/ \E s \in Sessions, u \in UserIds, d \in 1..MaxDevices, c \in Codes :
          TwoFactorVerifySetup(s, u, d, c)
    \/ \E s \in Sessions, u \in UserIds, p \in Passwords : TwoFactorDisable(s, u, p)
    \/ \E s \in Sessions, u \in UserIds, e \in ChangeEmails, p \in Passwords, sent \in BOOLEAN :
          ChangeEmail(s, u, e, p, sent)
    \/ \E s \in Sessions : SessionExpire(s)

Spec == Init /\ [][Next]_vars

\* ------------------------------------------------------- the social journey
\* A state Spec reaches: "ann" registered, confirmed her e-mail, logged in,
\* set up and confirmed TOTP device 1 (static tokens 1..BACKUP_CODES), and the
\* session ended.
InitSocial ==
    /\ users = << [NewUser(CHOOSE r \in RegInputs : r.username = "ann")
                     EXCEPT !.is_active = TRUE, !.ea = "verified"] >>
    /\ totp = << [user |-> 1, confirmed |-> TRUE] >>
    /\ static = [u \in UserIds |->
                    IF u = 1 THEN [exists |-> TRUE, tokens |-> 1..BACKUP_CODES] ELSE NoStatic]
    /\ nextToken = BACKUP_CODES
    /\ session = [s \in Sessions |-> EmptySession]
    /\ used = {}
    /\ use_redis = FALSE
    /\ now = 0
    /\ rows = <<>>
    /\ cache = EmptyCache
    /\ nextCode = 0
    /\ last = NoRequest
    /\ stage = "start"
    /\ work = NoWork
    /\ EmptyShop

NextSocial ==
    \/ \E s \in Sessions, p \in Providers, x \in Exchanges : SocialLogin(s, p, x)
    \/ \E s \in Sessions, req \in OneKeyRequests : SocialVerify(s, req)
    \/ \E s \in Sessions, e \in LoginEmails, n \in LoginNames, p \in Passwords :
          Login(s, e, n, p)
    \/ \E s \in Sessions, req \in OneKeyRequests : LoginVerify(s, req)
    \/ \E s \in Sessions, u \in UserIds : TwoFactorSetup(s, u)
    \/ \E s \in Sessions, u \in UserIds, d \in 1..MaxDevices, c \in Codes :
          TwoFactorVerifySetup(s, u, d, c)
    \/ \E s \in Sessions, u \in UserIds, p \in Passwords : TwoFactorDisable(s, u, p)
    \/ \E s \in Sessions : SessionExpire(s)

SpecSocial == InitSocial /\ [][NextSocial]_vars

\* ------------------------------------------------------- the phone journey
\* A state Spec reaches: "ann" registered with the number +111, confirmed her
\* e-mail and logged in.  The service runs with or without the cache.
InitPhone ==
    /\ users = << [NewUser(CHOOSE r \in RegInputs : r.username = "ann")
                     EXCEPT !.is_active = TRUE, !.ea = "verified"] >>
    /\ totp = <<>>
    /\ static = [u \in UserIds |-> NoStatic]
    /\ nextToken = 0
    /\ session = [s \in Sessions |-> [EmptySession EXCEPT !.auth = 1]]
    /\ used = {}
    /\ use_redis \in BOOLEAN
    /\ now = 0
    /\ rows = <<>>
    /\ cache = EmptyCache
    /\ nextCode = 0
    /\ last = NoRequest
    /\ stage = "start"
    /\ work = NoWork
    /\ EmptyShop

\* sending codes: the hourly ceiling on one number
NextSend ==
    \/ \E s \in Sessions, u \in UserIds, p \in Phones, sms_ok \in BOOLEAN :
          SendCode(s, u, p, sms_ok)
    \/ \E s \in Sessions, u \in UserIds : RemovePhone(s, u)
    \/ \E t \in Instants : Advance(t)

SpecSend == InitPhone /\ [][NextSend]_vars

\* verifying codes: at most MaxPending codes are requested
NextVerify ==
    \/ \E s \in Sessions, u \in UserIds, p \in Phones, sms_ok \in BOOLEAN :
          nextCode < MaxPending /\ SendCode(s, u, p, sms_ok)
    \/ \E s \in Sessions, u \in UserIds, p \in Phones, c \in SubmittedCodes :
          VerifyPhone(s, u, p, c)
    \/ \E t \in Instants : Advance(t)

SpecVerify == InitPhone /\ [][NextVerify]_vars

\* ------------------------------------------ a caller without the password
\* the request does not carry the password of user u
Without(u, e, n, p) ==
    IF ResolveUser(e, n) = u THEN ~check_password(u, p) ELSE TRUE

\* "ann" has a confirmed TOTP device and backup codes, "bob" has registered
\* and confirmed his e-mail address
InitVictim ==
    /\ users = << [NewUser(CHOOSE r \in RegInputs : r.username = "ann")
                     EXCEPT !.is_active = TRUE, !.ea = "verified"],
                  [NewUser(CHOOSE r \in RegInputs : r.username = "bob")
                     EXCEPT !.is_active = TRUE, !.ea = "verified"] >>
    /\ totp = << [user |-> 1, confirmed |-> TRUE] >>
    /\ static = [u \in UserIds |->
                    IF u = 1 THEN [exists |-> TRUE, tokens |-> 1..BACKUP_CODES] ELSE NoStatic]
    /\ nextToken = BACKUP_CODES
    /\ session = [s \in Sessions |-> EmptySession]
    /\ used = {}
    /\ use_redis = FALSE
    /\ now = 0
    /\ rows = <<>>
    /\ cache = EmptyCache
    /\ nextCode = 0
    /\ last = NoRequest
    /\ stage = "start"
    /\ work = NoWork
    /\ EmptyShop

\* no request carries the password of "ann": logins of "bob" and with wrong
\* passwords, any request of the second step, and the second-factor setup
\* of whoever holds the session
NextNoPassword ==
    \/ \E s \in Sessions, e \in LoginEmails, n \in LoginNames, p \in Passwords :
          Without(1, e, n, p) /\ Login(s, e, n, p)
    \/ \E s \in Sessions, req \in OneKeyRequests : LoginVerify(s, req)
    \/ \E s \in Sessions, u \in UserIds : TwoFactorSetup(s, u)
    \/ \E s \in Sessions, u \in UserIds, d \in 1..MaxDevices, c \in Codes :
          TwoFactorVerifySetup(s, u, d, c)
    \/ \E s \in Sessions : SessionExpire(s)

SpecNoPassword == InitVictim /\ [][NextNoPassword]_vars

\* TwoFactorVerifyView.post; `as_list`: the field token is a list, empty when
\* the token is blank.  An empty list is answered 400; for every other value
\* the view evaluates str(...).strip.replace, and the method object str.strip
\* has no attribute replace: AttributeError ends the request before any
\* device is looked up.
TwoFactorVerify(s, u, token, as_list) ==
    /\ Authenticated(s, u)
    /\ last' = IF as_list /\ token = Blank
               THEN Resp("second_factor", u, 400, "token_required")
               ELSE Resp("second_factor", u, 500, "server_error")
    /\ UNCHANGED <<users, totp, static, nextToken, session, used>>
    /\ UNCHANGED phoneVars
    /\ stage' = Observe(last', users')
    /\ UNCHANGED work
    /\ UNCHANGED shopVars

\* "ann" (TOTP device, backup codes) and "bob" (no device) log in and send
\* second-factor codes while logged in
NextSecondFactor ==
    \/ \E s \in Sessions, e \in LoginEmails, n \in LoginNames, p \in Passwords :
          Login(s, e, n, p)
    \/ \E s \in Sessions, req \in OneKeyRequests : LoginVerify(s, req)
    \/ \E s \in Sessions, u \in UserIds, c \in Codes, as_list \in BOOLEAN :
          TwoFactorVerify(s, u, c, as_list)
    \/ \E s \in Sessions : SessionExpire(s)

SpecSecondFactor == InitVictim /\ [][NextSecondFactor]_vars

\* ------------------------------------------------- two users and one number
\* A state SpecAccounts reaches: "ann" (number +111) and "bob" (+222) have
\* registered and confirmed their e-mail addresses.  They log in in turn
\* and request, verify, update and remove phone numbers.
InitPhones ==
    /\ users = << [NewUser(CHOOSE r \in RegInputs : r.username = "ann")
                     EXCEPT !.is_active = TRUE, !.ea = "verified"],
                  [NewUser(CHOOSE r \in RegInputs : r.username = "bob")
                     EXCEPT !.is_active = TRUE, !.ea = "verified"] >>
    /\ totp = <<>>
    /\ static = [u \in UserIds |-> NoStatic]
    /\ nextToken = 0
    /\ session = [s \in Sessions |-> EmptySession]
    /\ used = {}
    /\ use_redis \in BOOLEAN
    /\ now = 0
    /\ rows = <<>>
    /\ cache = EmptyCache
    /\ nextCode = 0
    /\ last = NoRequest
    /\ stage = "start"
    /\ work = NoWork
    /\ EmptyShop

\* the instant at which a code requested at 0 has expired
Expiry == {CODE_EXPIRY_MINUTES + 1}

\* fewer than MaxTries failed attempts are counted for the number
TriesLeft(p) ==
    /\ CacheCount(cache.verify_attempts[p]) < MaxTries
    /\ \A i \in 1..Len(rows) : rows[i].attempts < MaxTries

NextPhones ==
    \/ \E s \in Sessions, e \in LoginEmails \ {"none"}, p \in Passwords :
          Login(s, e, "none", p)
    \/ \E s \in Sessions, u \in UserIds, p \in Phones, sms_ok \in BOOLEAN :
          nextCode < MaxPending /\ SendCode(s, u, p, sms_ok)
    \/ \E s \in Sessions, u \in UserIds, p \in Phones, c \in 1..MaxPending :
          TriesLeft(p) /\ VerifyPhone(s, u, p, c)
    \/ \E s \in Sessions, u \in UserIds, p \in Phones \cup {"none"} : UpdatePhone(s, u, p)
    \/ \E s \in Sessions, u \in UserIds : RemovePhone(s, u)
    \/ \E t \in Expiry : Advance(t)

SpecPhones == InitPhones /\ [][NextPhones]_vars

\* ------------------------------------------------------ the account journey
\* registrations, e-mail confirmations, logins and e-mail changes of up to
\* MaxUsers users; a further registration names a user name that is taken
SignUpInputs ==
    RegInputs \cup
    { [email |-> "d@x.com", username |-> "ann", phone |-> "+333", password |-> "pw2"] }

NextAccounts ==
    \/ \E r \in SignUpInputs : Len(users) < MaxUsers /\ SignUp(r)
    \/ \E u \in UserIds, a \in BOOLEAN : MarkEmailVerified(u, a)
    \/ \E s \in Sessions, e \in LoginEmails, n \in LoginNames, p \in Passwords :
          Login(s, e, n, p)
    \/ \E s \in Sessions, u \in UserIds, e \in ChangeEmails, p \in Passwords, sent \in BOOLEAN :
          ChangeEmail(s, u, e, p, sent)

SpecAccounts == Init /\ [][NextAccounts]_vars

\* ----------------------------------------------------------- carts and orders
\* Product.current_price
current_price(p) == IF p.discount_price # 0 THEN p.discount_price ELSE p.price

\* Product.in_stock
in_stock(p) == p.stock_quantity > 0

\* the product ids and quantities requests name: one id has no product,
\* one quantity is negative
RequestProducts == 1..(Len(Catalogue) + 1)
Quantities == -1..MaxQty

\* a cart row that has not been deleted; its lines map product id to quantity
CartExists(c) == c \in 1..Len(carts) /\ ~carts[c].deleted
NoLines == [p \in {} |-> 0]

\* sum(...) over the lines of a cart
RECURSIVE SumLines(_, _)
SumLines(lines, ps) ==
    IF ps = {} THEN 0
    ELSE LET p == CHOOSE x \in ps : TRUE
         IN lines[p] * current_price(products[p]) + SumLines(lines, ps \ {p})

\* Cart.total_price with CartItem.total_price
total_price(lines) == SumLines(lines, DOMAIN lines)

\* CartViewSet.create
CreateCart ==
    /\ Len(carts) < MaxCarts
    /\ carts' = Append(carts, [deleted |-> FALSE, lines |-> NoLines])
    /\ last' = Resp("create_cart", NoUser, 201, "created")
    /\ UNCHANGED <<users, totp, static, nextToken, session, used>>
    /\ UNCHANGED phoneVars
    /\ UNCHANGED <<products, orders, addresses, stripe>>
    /\ stage' = Observe(last', users')
    /\ UNCHANGED work

\* CartItemSerializer.validate_product_id and the quantity field (a
\* PositiveIntegerField: 0 is accepted); "ok" when the request is valid
AddItemError(p, q) ==
    IF p \notin 1..Len(products) THEN "product_not_found"
    ELSE IF ~products[p].is_active THEN "not_available"
    ELSE IF ~in_stock(products[p]) THEN "out_of_stock"
    ELSE IF q < 0 THEN "quantity"
    ELSE "ok"

\* CartItemSerializer.create: the quantity is added to the line of the
\* product, or the line is created
AddLine(lines, p, q) ==
    [x \in DOMAIN lines \cup {p} |->
        IF x = p THEN (IF p \in DOMAIN lines THEN lines[p] + q ELSE q) ELSE lines[x]]

\* CartItemViewSet.create: POST cart/{c}/items/
AddItem(c, p, q) ==
    /\ UNCHANGED <<users, totp, static, nextToken, session, used>>
    /\ UNCHANGED phoneVars
    /\ UNCHANGED <<products, orders, addresses, stripe>>
    /\ IF AddItemError(p, q) # "ok"
       THEN /\ last' = Resp("add_item", NoUser, 400, AddItemError(p, q))
            /\ carts' = carts
       ELSE IF ~CartExists(c)
       THEN \* the row refers to a cart that does not exist
            /\ last' = Resp("add_item", NoUser, 500, "server_error")
            /\ carts' = carts
       ELSE /\ carts' = [carts EXCEPT ![c].lines = AddLine(@, p, q)]
            /\ last' = Resp("add_item", NoUser, 201, "created")
    /\ stage' = Observe(last', users')
    /\ UNCHANGED work

\* an address row that has not been deleted
AddressExists(a) == a \in 1..Len(addresses) /\ addresses[a].user # NoUser

\* variant of CartError: only the cart is looked up
CartFoundOnly(c) == IF ~CartExists(c) THEN "cart_not_found" ELSE "ok"

\* CheckoutSerializer.validate_cart_id
CartError(c) ==
    IF ~CartExists(c) THEN "cart_not_found"
    ELSE IF DOMAIN carts[c].lines = {} THEN "cart_empty"
    ELSE IF \E p \in DOMAIN carts[c].lines :
               carts[c].lines[p] > products[p].stock_quantity
    THEN "not_enough_stock"
    ELSE "ok"

\* CheckoutSerializer.validate: u the authenticated user or NoUser, a the
\* shipping_address_id or 0, email and fields whether guest_email and all
\* required shipping fields are given
CheckoutError(u, c, a, email, fields) ==
    IF CartError(c) # "ok" THEN CartError(c)
    ELSE IF u = NoUser /\ ~email THEN "guest_email"
    ELSE IF a # 0
    THEN (IF u = NoUser THEN "must_be_logged_in"
          ELSE IF ~(AddressExists(a) /\ addresses[a].user = u) THEN "address_not_found"
          ELSE "ok")
    ELSE IF ~fields THEN "shipping_field"
    ELSE "ok"

\* paid_at of an order that is not paid
NoTime == -1

\* the Order row and its OrderItem rows that CheckoutSerializer.create makes
NewOrder(u, c, a, email, intent) ==
    [user |-> u,
     guest_email |-> email,
     status |-> "pending",
     subtotal |-> total_price(carts[c].lines),
     total |-> total_price(carts[c].lines),
     shipping_from |-> a,
     items |-> [p \in DOMAIN carts[c].lines |->
                  [product_price |-> current_price(products[p]),
                   quantity |-> carts[c].lines[p]]],
     intent |-> intent,
     paid_at |-> NoTime]

\* variant of ReduceStock: the stock is left as it is
KeepStock(lines) == products

\* CheckoutSerializer.create: stock_quantity -= quantity for each line
ReduceStock(lines) ==
    [p \in DOMAIN products |->
        IF p \in DOMAIN lines
        THEN [products[p] EXCEPT !.stock_quantity = @ - lines[p]]
        ELSE products[p]]

\* CheckoutView.post; stripe_ok: PaymentIntent.create does not raise
Checkout(u, c, a, email, fields, stripe_ok) ==
    LET err == CheckoutError(u, c, a, email, fields)
        intent == IF ~stripe.secret_key THEN "none"
                  ELSE IF stripe_ok THEN "created" ELSE "stripe_error"
    IN
    /\ u = NoUser \/ u \in Pks
    /\ UNCHANGED <<users, totp, static, nextToken, session, used>>
    /\ UNCHANGED phoneVars
    /\ UNCHANGED <<addresses, stripe>>
    /\ IF err # "ok"
       THEN /\ last' = Resp("checkout", u, 400, err)
            /\ UNCHANGED <<products, carts, orders>>
       ELSE /\ orders' = Append(orders, NewOrder(u, c, a, email, intent))
            /\ products' = ReduceStock(carts[c].lines)
            /\ carts' = [carts EXCEPT ![c] = [deleted |-> TRUE, lines |-> NoLines]]
            /\ last' = Resp("checkout", u, 201, "created")
    /\ stage' = Observe(last', users')
    /\ UNCHANGED work

\* the Stripe-Signature header of a request: absent, not made with the
\* configured secret, or made with it; the event types; the order ids the
\* metadata names, 0: none
Signatures == {"none", "forged", "signed"}
EventTypes == {"payment_intent.succeeded", "payment_intent.created"}
EventOrders == 0..(MaxOrders + 1)

\* variant of ConstructEventFails: the header is not verified
SignatureIgnored(sig, body_ok) == ~body_ok

\* stripe.Webhook.construct_event raises SignatureVerificationError or,
\* when the payload is not JSON, ValueError
ConstructEventFails(sig, body_ok) == sig # "signed" \/ ~body_ok

\* stripe_webhook
StripeWebhook(sig, body_ok, type, o) ==
    /\ UNCHANGED <<users, totp, static, nextToken, session, used>>
    /\ UNCHANGED phoneVars
    /\ UNCHANGED <<products, carts, addresses, stripe>>
    /\ IF ~stripe.webhook_secret
       THEN /\ last' = Resp("webhook", NoUser, 400, "no_secret")
            /\ orders' = orders
       ELSE IF ConstructEventFails(sig, body_ok)
       THEN /\ last' = Resp("webhook", NoUser, 400, "not_verified")
            /\ orders' = orders
       ELSE IF type = "payment_intent.succeeded" /\ o \in 1..Len(orders)
       THEN /\ last' = Resp("webhook", NoUser, 200, "paid")
            /\ orders' = [orders EXCEPT ![o].status = "paid", ![o].paid_at = now]
       ELSE /\ last' = Resp("webhook", NoUser, 200, "ignored")
            /\ orders' = orders
    /\ stage' = Observe(last', users')
    /\ UNCHANGED work

\* variant of ShippingAddress_save: the other default addresses are kept
SaveOnly(a, rec) ==
    IF a = 0 THEN Append(addresses, rec) ELSE [addresses EXCEPT ![a] = rec]

\* ShippingAddress.save of the row a (0: a new row) with the values rec:
\* a default address clears the flag of the user's other default rows
ShippingAddress_save(a, rec) ==
    LET cleared == [i \in DOMAIN addresses |->
                      IF /\ rec.is_default
                         /\ addresses[i].user = rec.user
                         /\ addresses[i].is_default
                         /\ i # a
                      THEN [addresses[i] EXCEPT !.is_default = FALSE]
                      ELSE addresses[i]]
    IN IF a = 0 THEN Append(cleared, rec) ELSE [cleared EXCEPT ![a] = rec]

\* the is_default values a request gives: true, false, or absent
Flags == {"true", "false", "absent"}

\* ShippingAddressViewSet.create: an absent is_default is the default False
CreateAddress(u, d) ==
    /\ u \in Pks
    /\ Len(addresses) < MaxAddresses
    /\ addresses' = ShippingAddress_save(0, [user |-> u, is_default |-> (d = "true")])
    /\ last' = Resp("create_address", u, 201, "created")
    /\ UNCHANGED <<users, totp, static, nextToken, session, used>>
    /\ UNCHANGED phoneVars
    /\ UNCHANGED <<products, carts, orders, stripe>>
    /\ stage' = Observe(last', users')
    /\ UNCHANGED work

\* ShippingAddressViewSet.update and partial_update: the queryset holds
\* the addresses of the user; a PATCH without is_default keeps the flag
UpdateAddress(u, a, d) ==
    /\ u \in Pks
    /\ UNCHANGED <<users, totp, static, nextToken, session, used>>
    /\ UNCHANGED phoneVars
    /\ UNCHANGED <<products, carts, orders, stripe>>
    /\ IF AddressExists(a) /\ addresses[a].user = u
       THEN /\ addresses' = ShippingAddress_save(a,
                   [user |-> u,
                    is_default |-> IF d = "absent" THEN addresses[a].is_default
                                   ELSE d = "true"])
            /\ last' = Resp("update_address", u, 200, "ok")
       ELSE /\ addresses' = addresses
            /\ last' = Resp("update_address", u, 404, "not_found")
    /\ stage' = Observe(last', users')
    /\ UNCHANGED work

\* ShippingAddressViewSet.destroy
DeleteAddress(u, a) ==
    /\ u \in Pks
    /\ UNCHANGED <<users, totp, static, nextToken, session, used>>
    /\ UNCHANGED phoneVars
    /\ UNCHANGED <<products, carts, orders, stripe>>
    /\ IF AddressExists(a) /\ addresses[a].user = u
       THEN /\ addresses' = [addresses EXCEPT ![a] = [user |-> NoUser, is_default |-> FALSE]]
            /\ last' = Resp("delete_address", u, 204, "deleted")
       ELSE /\ addresses' = addresses
            /\ last' = Resp("delete_address", u, 404, "not_found")
    /\ stage' = Observe(last', users')
    /\ UNCHANGED work

\* two registered users, the catalogue, no cart and no order
ShopOpens ==
    /\ users = << [NewUser(CHOOSE r \in RegInputs : r.username = "ann")
                     EXCEPT !.is_active = TRUE, !.ea = "verified"],
                  [NewUser(CHOOSE r \in RegInputs : r.username = "bob")
                     EXCEPT !.is_active = TRUE, !.ea = "verified"] >>
    /\ totp = <<>>
    /\ static = [u \in UserIds |-> NoStatic]
    /\ nextToken = 0
    /\ session = [s \in Sessions |-> EmptySession]
    /\ used = {}
    /\ use_redis = FALSE
    /\ now = 0
    /\ rows = <<>>
    /\ cache = EmptyCache
    /\ nextCode = 0
    /\ last = NoRequest
    /\ stage = "start"
    /\ work = NoWork
    /\ products = Catalogue
    /\ carts = <<>>
    /\ orders = <<>>

\* "ann" and "bob" have each saved an address; STRIPE_SECRET_KEY is set or not
InitCart ==
    /\ ShopOpens
    /\ addresses = << [user |-> 1, is_default |-> TRUE], [user |-> 2, is_default |-> TRUE] >>
    /\ stripe \in [secret_key : BOOLEAN, webhook_secret : {FALSE}]

\* a line of at most MaxLine units after the request
LineFits(c, p, q) ==
    CartExists(c) /\ p \in DOMAIN carts[c].lines => carts[c].lines[p] + q <= MaxLine

\* who sends a checkout request (a guest or "ann") and the address ids it names
Buyers == {NoUser, 1}
RequestAddresses == 0..2

NextCart ==
    \/ CreateCart
    \/ \E c \in 1..MaxCarts, p \in RequestProducts, q \in Quantities :
          LineFits(c, p, q) /\ AddItem(c, p, q)
    \/ \E u \in Buyers, c \in 1..MaxCarts, a \in RequestAddresses,
          email \in BOOLEAN, fields \in BOOLEAN, stripe_ok \in BOOLEAN :
          Len(orders) < MaxCheckouts /\ Checkout(u, c, a, email, fields, stripe_ok)

SpecCart == InitCart /\ [][NextCart]_vars

\* A state SpecCart reaches: a cart holds one unit of product 1.  The
\* Stripe key is set, the webhook secret is set or not.
InitPay ==
    /\ users = << [NewUser(CHOOSE r \in RegInputs : r.username = "ann")
                     EXCEPT !.is_active = TRUE, !.ea = "verified"] >>
    /\ totp = <<>>
    /\ static = [u \in UserIds |-> NoStatic]
    /\ nextToken = 0
    /\ session = [s \in Sessions |-> EmptySession]
    /\ used = {}
    /\ use_redis = FALSE
    /\ now = 0
    /\ rows = <<>>
    /\ cache = EmptyCache
    /\ nextCode = 0
    /\ last = NoRequest
    /\ stage = "start"
    /\ work = NoWork
    /\ products = Catalogue
    /\ carts = << [deleted |-> FALSE, lines |-> [p \in {1} |-> 1]],
                  [deleted |-> FALSE, lines |-> [p \in {2} |-> 1]] >>
    /\ orders = <<>>
    /\ addresses = <<>>
    /\ stripe \in [secret_key : {TRUE}, webhook_secret : BOOLEAN]

\* the instants at which events arrive
Later == {2, 11}

NextPay ==
    \/ \E c \in 1..MaxCarts, email \in BOOLEAN, stripe_ok \in BOOLEAN :
          Len(orders) < MaxOrders /\ Checkout(1, c, 0, email, TRUE, stripe_ok)
    \/ \E sig \in Signatures, body_ok \in BOOLEAN, type \in EventTypes, o \in EventOrders :
          StripeWebhook(sig, body_ok, type, o)
    \/ \E t \in Later : Advance(t)

SpecPay == InitPay /\ [][NextPay]_vars

\* the addresses of two users
InitAddresses ==
    /\ ShopOpens
    /\ addresses = <<>>
    /\ stripe = [secret_key |-> FALSE, webhook_secret |-> FALSE]

NextAddresses ==
    \/ \E u \in UserIds, d \in Flags : CreateAddress(u, d)
    \/ \E u \in UserIds, a \in 1..MaxAddresses, d \in Flags : UpdateAddress(u, a, d)
    \/ \E u \in UserIds, a \in 1..MaxAddresses : DeleteAddress(u, a)

SpecAddresses == InitAddresses /\ [][NextAddresses]_vars

\* ------------------------------------------ requests served concurrently
\* Each request runs in a worker of its own.  The queries and the saves of
\* a handler are separate steps, and the steps of different workers
\* interleave: no handler of the accounts locks a row or opens a transaction.

\* verify_phone_number, first step: _verify_code_db loads the newest pending
\* row of (phone, user); the worker keeps the instance as loaded
LoadPending(w, s, u, p, code) ==
    LET i == IF Pending(u, p) = {} THEN 0 ELSE Newest(Pending(u, p)) IN
    /\ Authenticated(s, u)
    /\ work[w].pc = "idle"
    /\ work' = [work EXCEPT ![w] =
                   [Idle EXCEPT !.pc = "verify", !.user = u, !.phone = p, !.code = code,
                                !.row = i,
                                !.attempts = IF i = 0 THEN 0 ELSE rows[i].attempts]]
    /\ UNCHANGED <<users, totp, static, nextToken, session, used, last, stage>>
    /\ UNCHANGED phoneVars
    /\ UNCHANGED shopVars

\* `compared` is not counted further than one past the ceiling
OneMore(n) == IF n <= MAX_ATTEMPTS THEN n + 1 ELSE n

\* the instance a worker holds: the row with the attempts it was loaded with
\* and verified_at null, as the query selected it
Loaded(w) == [rows[work[w].row] EXCEPT !.attempts = work[w].attempts, !.verified = FALSE]

\* _verify_code_db on the loaded instance: the outcome
OutcomeLoaded(w) ==
    IF work[w].row = 0 THEN "no_pending"
    ELSE IF is_expired(Loaded(w)) THEN "expired"
    ELSE IF ~is_valid(Loaded(w)) THEN "too_many_attempts"
    ELSE IF Loaded(w).code = work[w].code THEN "verified"
    ELSE "invalid_code"

\* verify_phone_number, second step: the checks and the comparison on the
\* loaded instance, then mark_verified or increment_attempts, which saves
\* the attempts of the instance plus one, and the response
FinishVerify(w) ==
    LET u == work[w].user
        p == work[w].phone
        i == work[w].row
        outcome == OutcomeLoaded(w)
        clash == outcome = "verified" /\ HeldByOther(u, p)
    IN
    /\ work[w].pc = "verify"
    /\ work' = [work EXCEPT ![w] = Idle]
    /\ rows' = IF outcome = "verified"
               THEN [rows EXCEPT ![i].verified = TRUE, ![i].compared = OneMore(@)]
               ELSE IF outcome = "invalid_code"
               THEN [rows EXCEPT ![i].attempts = work[w].attempts + 1,
                                 ![i].compared = OneMore(@)]
               ELSE rows
    /\ IF outcome = "verified" /\ ~clash
       THEN /\ users' = [users EXCEPT ![u].phone = p, ![u].phone_verified = TRUE]
            /\ last' = Resp("verify_phone", u, 200, "verified")
       ELSE /\ users' = users
            /\ last' = Resp("verify_phone", u, 500,
                             IF clash THEN "server_error" ELSE outcome)
    /\ UNCHANGED <<totp, static, nextToken, session, used, use_redis, now, cache, nextCode>>
    /\ stage' = Observe(last', users')
    /\ UNCHANGED shopVars

\* concurrent verifications in database mode, of the codes of MaxRaceCodes
\* requests
InitRaceVerify == InitPhone /\ ~use_redis

NextRaceVerify ==
    \/ \E s \in Sessions, u \in UserIds, p \in Phones, sms_ok \in BOOLEAN :
          nextCode < MaxRaceCodes /\ SendCode(s, u, p, sms_ok)
    \/ \E w \in Workers, s \in Sessions, u \in UserIds, p \in Phones, c \in 0..MaxRaceCodes :
          LoadPending(w, s, u, p, c)
    \/ \E w \in Workers : FinishVerify(w)
    \/ \E t \in Expiry : Advance(t)

SpecRaceVerify == InitRaceVerify /\ [][NextRaceVerify]_vars

\* send_verification_code, first step: the serializer and can_send_code;
\* request.user was loaded with the request
CheckSend(w, s, u, p) ==
    LET R(status, kind) == Resp("send_code", u, status, kind)
        can == can_send_code(p)
    IN
    /\ Authenticated(s, u)
    /\ work[w].pc = "idle"
    /\ IF PhoneTaken(u, p)
       THEN /\ last' = R(400, "invalid")
            /\ stage' = Observe(last', users)
            /\ work' = work
       ELSE IF ~can.allowed
       THEN /\ last' = [R(429, "rate_limited") EXCEPT !.wait = can.wait_seconds]
            /\ stage' = Observe(last', users)
            /\ work' = work
       ELSE /\ work' = [work EXCEPT ![w] =
                           [Idle EXCEPT !.pc = "send", !.user = u, !.phone = p,
                                        !.stored = users[u].phone]]
            /\ UNCHANGED <<last, stage>>
    /\ UNCHANGED <<users, totp, static, nextToken, session, used>>
    /\ UNCHANGED phoneVars
    /\ UNCHANGED shopVars

\* send_verification_code, second step: the code is stored and handed to the
\* gateway; on success the view saves the number on request.user when it
\* differs from the one the request was loaded with, and
\* increment_code_sent_count reads the counter
Dispatch(w, sms_ok) ==
    LET u == work[w].user
        p == work[w].phone
        R(status, kind) == Resp("send_code", u, status, kind)
        code == nextCode + 1
        stored == StoreInCache(cache, u, p, code)
    IN
    /\ work[w].pc = "send"
    /\ nextCode < MaxCodes
    /\ nextCode' = code
    /\ cache' = stored
    /\ rows' = IF sms_ok THEN Append(rows, NewRow(u, p, code)) ELSE rows
    /\ IF ~sms_ok
       THEN /\ last' = R(500, "sms_failed")
            /\ UNCHANGED users
            /\ work' = [work EXCEPT ![w] = Idle]
       ELSE IF work[w].stored = p
       THEN /\ last' = R(500, "no_response")
            /\ UNCHANGED users
            /\ work' = [work EXCEPT ![w] = Idle]
       ELSE IF HeldByOther(u, p)
       THEN /\ last' = R(500, "server_error")
            /\ UNCHANGED users
            /\ work' = [work EXCEPT ![w] = Idle]
       ELSE /\ users' = [users EXCEPT ![u].phone = p, ![u].phone_verified = FALSE]
            /\ IF use_redis
               THEN /\ work' = [work EXCEPT ![w].pc = "count",
                                            ![w].count = CacheCount(stored.codes_sent[p])]
                    /\ last' = last
               ELSE /\ work' = [work EXCEPT ![w] = Idle]
                    /\ last' = R(200, "sent")
    /\ stage' = IF last' = last THEN stage ELSE Observe(last', users')
    /\ UNCHANGED <<totp, static, nextToken, session, used, use_redis, now>>
    /\ UNCHANGED shopVars

\* send_verification_code, third step: increment_code_sent_count writes the
\* counter it read plus one, and the view answers
CountSend(w) ==
    LET u == work[w].user
        p == work[w].phone
    IN
    /\ work[w].pc = "count"
    /\ cache' = [cache EXCEPT !.codes_sent[p] =
                    [count |-> work[w].count + 1, until |-> now + HOUR]]
    /\ last' = Resp("send_code", u, 200, "sent")
    /\ work' = [work EXCEPT ![w] = Idle]
    /\ UNCHANGED <<users, totp, static, nextToken, session, used, use_redis, now, rows, nextCode>>
    /\ stage' = Observe(last', users')
    /\ UNCHANGED shopVars

\* concurrent requests for codes in cache mode; the hour of the counter passes
InitRaceSend == InitPhone /\ use_redis

NextRaceSend ==
    \/ \E w \in Workers, s \in Sessions, u \in UserIds, p \in Phones : CheckSend(w, s, u, p)
    \/ \E w \in Workers, sms_ok \in BOOLEAN : Dispatch(w, sms_ok)
    \/ \E w \in Workers : CountSend(w)
    \/ \E s \in Sessions, u \in UserIds : RemovePhone(s, u)
    \/ \E t \in {HOUR + 1} : Advance(t)

SpecRaceSend == InitRaceSend /\ [][NextRaceSend]_vars

\* CheckoutView.post, first step: serializer.is_valid()
BeginCheckout(w, u, c, a, email, fields) ==
    LET err == CheckoutError(u, c, a, email, fields) IN
    /\ u = NoUser \/ u \in Pks
    /\ work[w].pc = "idle"
    /\ IF err # "ok"
       THEN /\ last' = Resp("checkout", u, 400, err)
            /\ stage' = Observe(last', users)
            /\ work' = work
       ELSE /\ work' = [work EXCEPT ![w] =
                           [Idle EXCEPT !.pc = "checkout", !.user = u, !.cart = c,
                                        !.address = a, !.email = email]]
            /\ UNCHANGED <<last, stage>>
    /\ UNCHANGED <<users, totp, static, nextToken, session, used>>
    /\ UNCHANGED phoneVars
    /\ UNCHANGED shopVars

\* CheckoutSerializer.create, the query: the cart is loaded with its items
\* and their products; a cart that is gone raises Cart.DoesNotExist
LoadCart(w) ==
    /\ work[w].pc = "checkout"
    /\ IF ~CartExists(work[w].cart)
       THEN /\ last' = Resp("checkout", work[w].user, 500, "server_error")
            /\ stage' = Observe(last', users)
            /\ work' = [work EXCEPT ![w] = Idle]
       ELSE /\ work' = [work EXCEPT
                           ![w].pc = "create",
                           ![w].lines = carts[work[w].cart].lines,
                           ![w].stock = [p \in DOMAIN products |-> products[p].stock_quantity]]
            /\ UNCHANGED <<last, stage>>
    /\ UNCHANGED <<users, totp, static, nextToken, session, used>>
    /\ UNCHANGED phoneVars
    /\ UNCHANGED shopVars

\* stock_quantity -= quantity on the loaded products and
\* save(update_fields=['stock_quantity']): the stock the request saw, less
\* its lines
SaveStock(w) ==
    [p \in DOMAIN products |->
        IF p \in DOMAIN work[w].lines
        THEN [products[p] EXCEPT !.stock_quantity = work[w].stock[p] - work[w].lines[p]]
        ELSE products[p]]

\* CheckoutSerializer.create, the writes, in one transaction: the order with
\* its items, the stock of each product, the PaymentIntent, cart.delete().
\* stock_quantity is a PositiveIntegerField: the database refuses a negative
\* value and the transaction is rolled back.
SaveOrder(w, stripe_ok) ==
    LET u == work[w].user
        c == work[w].cart
        lines == work[w].lines
        intent == IF ~stripe.secret_key THEN "none"
                  ELSE IF stripe_ok THEN "created" ELSE "stripe_error"
        order == [user |-> u,
                  guest_email |-> work[w].email,
                  status |-> "pending",
                  subtotal |-> total_price(lines),
                  total |-> total_price(lines),
                  shipping_from |-> work[w].address,
                  items |-> [p \in DOMAIN lines |->
                               [product_price |-> current_price(products[p]),
                                quantity |-> lines[p]]],
                  intent |-> intent,
                  paid_at |-> NoTime]
    IN
    /\ work[w].pc = "create"
    /\ work' = [work EXCEPT ![w] = Idle]
    /\ IF \E p \in DOMAIN lines : work[w].stock[p] - lines[p] < 0
       THEN /\ last' = Resp("checkout", u, 500, "server_error")
            /\ UNCHANGED <<products, carts, orders>>
       ELSE /\ orders' = Append(orders, order)
            /\ products' = SaveStock(w)
            /\ carts' = [carts EXCEPT ![c] = [deleted |-> TRUE, lines |-> NoLines]]
            /\ last' = Resp("checkout", u, 201, "created")
    /\ UNCHANGED <<users, totp, static, nextToken, session, used>>
    /\ UNCHANGED phoneVars
    /\ UNCHANGED <<addresses, stripe>>
    /\ stage' = Observe(last', users')

\* A state SpecCart reaches: MaxCarts carts hold a line each, of up to
\* MaxLine units of product 1 or of one unit of product 2; no Stripe key.
FilledCarts ==
    { [deleted |-> FALSE, lines |-> [p \in {1} |-> q]] : q \in 1..MaxLine }
        \cup { [deleted |-> FALSE, lines |-> [p \in {2} |-> 1]] }

InitRaceCheckout ==
    /\ users = << [NewUser(CHOOSE r \in RegInputs : r.username = "ann")
                     EXCEPT !.is_active = TRUE, !.ea = "verified"] >>
    /\ totp = <<>>
    /\ static = [u \in UserIds |-> NoStatic]
    /\ nextToken = 0
    /\ session = [s \in Sessions |-> EmptySession]
    /\ used = {}
    /\ use_redis = FALSE
    /\ now = 0
    /\ rows = <<>>
    /\ cache = EmptyCache
    /\ nextCode = 0
    /\ last = NoRequest
    /\ stage = "start"
    /\ work = NoWork
    /\ products = Catalogue
    /\ carts \in [1..MaxCarts -> FilledCarts]
    /\ orders = <<>>
    /\ addresses = <<>>
    /\ stripe = [secret_key |-> FALSE, webhook_secret |-> FALSE]

\* different carts are checked out concurrently: no other request in flight
\* is a checkout of cart c, and at most MaxOrders orders are created
NextRaceCheckout ==
    \/ \E w \in Workers, u \in Buyers, c \in 1..MaxCarts, email \in BOOLEAN :
          /\ \A v \in Workers : work[v].cart # c
          /\ Len(orders) + Cardinality({ v \in Workers : work[v].pc # "idle" }) < MaxOrders
          /\ BeginCheckout(w, u, c, 0, email, TRUE)
    \/ \E w \in Workers : LoadCart(w)
    \/ \E w \in Workers, stripe_ok \in BOOLEAN : SaveOrder(w, stripe_ok)

SpecRaceCheckout == InitRaceCheckout /\ [][NextRaceCheckout]_vars

\* ------------------------------------------------------------------- claims
\* what the claims mean by "a confirmed second-factor device" and "a code
\* that is correct for the user", read off the tables
HoldsDevice(u) ==
    \/ \E d \in 1..Len(totp) : totp[d].user = u /\ totp[d].confirmed
    \/ static[u].exists
CorrectTotp(u, code) ==
    \E d \in 1..Len(totp) : totp[d].user = u /\ totp[d].confirmed /\ code = <<"d6", d>>
CorrectBackup(u, code) ==
    code[1] = "b32" /\ static[u].exists /\ code[2] \in static[u].tokens
CorrectCode(u, code) == CorrectTotp(u, code) \/ CorrectBackup(u, code)

\* C1: a login with the correct password of a user whose e-mail is not
\* verified answers 400 verification_required, returns no tokens, and neither
\* challenges for a second factor nor touches the session or the account,
\* whatever devices the user has.
C1_UnverifiedLoginRefused ==
    [][\A s \in Sessions, e \in LoginEmails, n \in LoginNames, p \in Passwords :
         LET u == ResolveUser(e, n) IN
         (u # NoUser /\ users[u].password = p /\ users[u].ea # "verified"
            /\ last'.op = "login" /\ Login(s, e, n, p))
         => /\ last'.user = u
            /\ last'.status = 400 /\ last'.kind = "verification_required"
            /\ last'.tokens = NoUser
            /\ session' = session /\ users' = users]_vars

\* C1 witness: the refusal was given to a user who holds a confirmed device
C1_Witness ==
    /\ last.op = "login" /\ last.kind = "verification_required"
    /\ last.user \in Pks /\ HoldsDevice(last.user)

\* C2: a login with the correct password of a user with a verified e-mail
\* and a confirmed device answers 202 requires_2fa with the user's id and no
\* tokens, and leaves the session alone; the login endpoint returns tokens
\* for a user who holds a device only from its second step, with a code
\* that is correct for that user.
C2_ChallengeThenVerify ==
    [][/\ \A s \in Sessions, e \in LoginEmails, n \in LoginNames, p \in Passwords :
            LET u == ResolveUser(e, n) IN
            (u # NoUser /\ users[u].password = p /\ users[u].ea = "verified"
               /\ HoldsDevice(u) /\ last'.op = "login" /\ Login(s, e, n, p))
            => /\ last'.status = 202 /\ last'.kind = "requires_2fa"
               /\ last'.user_id = u /\ last'.tokens = NoUser
               /\ session' = session
       /\ (last'.op \in {"login", "login_verify"} /\ last'.tokens # NoUser
             /\ HoldsDevice(last'.tokens))
          => \E s \in Sessions, req \in OneKeyRequests :
                /\ req.key /\ req.user_id = last'.tokens
                /\ (req.otp_token # <<"blank">> \/ req.token # <<"blank">>)
                /\ CorrectCode(req.user_id,
                               IF req.otp_token # <<"blank">> THEN req.otp_token ELSE req.token)
                /\ LoginVerify(s, req)
      ]_vars

\* C2 witness: the challenge was given to a verified user who holds a device
C2_Witness ==
    /\ last.op = "login" /\ last.status = 202 /\ last.tokens = NoUser
    /\ last.user_id \in Pks /\ HoldsDevice(last.user_id)
    /\ users[last.user_id].ea = "verified"

SentInHour(p) ==
    Cardinality({ i \in 1..Len(rows) : rows[i].phone = p /\ rows[i].created_at > now - 60 })

\* C4: a request to send a code to a number that five codes were sent to
\* within the last hour is answered 429 rate_limited with a positive
\* retry_after, with or without the cache and whatever number is stored.
C4_SixthSendDenied ==
    [][\A s \in Sessions, u \in UserIds, p \in Phones, sms_ok \in BOOLEAN :
         (SentInHour(p) >= 5 /\ SendCode(s, u, p, sms_ok))
         => /\ last'.status = 429 /\ last'.kind = "rate_limited"
            /\ last'.wait > 0
            /\ rows' = rows]_vars

\* C5: a verification against a pending record that is not expired and that
\* five wrong codes were submitted against is refused for too many attempts
\* and marks nothing verified, whatever code it carries, with or without
\* the cache.
C5_SixthVerifyRefused ==
    [][\A s \in Sessions, u \in UserIds, p \in Phones, c \in SubmittedCodes :
         (Pending(u, p) # {}
            /\ rows[Newest(Pending(u, p))].wrong >= 5
            /\ now <= rows[Newest(Pending(u, p))].expires_at
            /\ VerifyPhone(s, u, p, c))
         => /\ last'.kind \in {"too_many_attempts", "too_many_per_minute"}
            /\ last'.status # 200
            /\ users'[u].phone_verified = users[u].phone_verified
            /\ ~rows'[Newest(Pending(u, p))].verified]_vars

\* C6: the sign-up journey runs as described: at each of its stages the
\* next request of the journey gets the described outcome (which is what
\* moves `stage` on), from the registration of a@x.com to the tokens for a
\* correct TOTP code.
C6_Journey ==
    [][/\ (stage = "start"
             /\ Register([email |-> "a@x.com", username |-> "ann",
                          phone |-> "+111", password |-> "pw1"]))
          => stage' = "registered"
       /\ \A s \in Sessions :
            /\ (stage \in {"registered", "verified", "confirmed"}
                  /\ Login(s, "a@x.com", "none", "pw1"))
               => stage' = (CASE stage = "registered" -> "refused"
                              [] stage = "verified" -> "logged_in"
                              [] stage = "confirmed" -> "challenged")
            /\ (stage = "logged_in" /\ TwoFactorSetup(s, 1)) => stage' = "setup"
            /\ (stage = "setup" /\ TwoFactorVerifySetup(s, 1, Len(totp), <<"d6", Len(totp)>>))
               => (stage' = "confirmed" /\ Cardinality(last'.codes) = 10)
            /\ \A req \in OneKeyRequests :
                 LET code == IF req.otp_token # <<"blank">> THEN req.otp_token ELSE req.token IN
                 /\ (stage = "challenged" /\ req.key /\ req.user_id = 1
                       /\ code # <<"blank">> /\ ~CorrectCode(1, code) /\ LoginVerify(s, req))
                    => (stage' = "rejected" /\ last'.tokens = NoUser)
                 /\ (stage = "rejected" /\ req.key /\ req.user_id = 1
                       /\ CorrectTotp(1, code) /\ LoginVerify(s, req))
                    => (stage' = "done" /\ last'.tokens = 1)
       /\ \A a \in BOOLEAN :
            (stage = "refused" /\ MarkEmailVerified(1, a)) => stage' = "verified"
      ]_vars

\* C6 witness: the journey was completed
C6_Witness == stage = "done" /\ last.op = "login_verify" /\ last.tokens = 1

\* C7: a social login that resolves to a user who holds a confirmed device
\* answers 202 with that user's id and the provider, returns no tokens,
\* leaves the session bound to no user, and records the pending login in
\* the session.
C7_SocialChallenge ==
    [][\A s \in Sessions, provider \in Providers, x \in Exchanges :
         (x.kind = "user" /\ HoldsDevice(x.user) /\ SocialLogin(s, provider, x))
         => /\ last'.status = 202
            /\ last'.user_id = x.user /\ last'.provider = provider
            /\ last'.tokens = NoUser
            /\ session'[s].auth = NoUser
            /\ session'[s].pending = x.user
            /\ session'[s].provider = provider
            /\ session'[s].requires_2fa]_vars

C9_SocialVerifyCompletes ==
    [][\A s \in Sessions, req \in OneKeyRequests :
         LET code == IF req.otp_token # <<"blank">> THEN req.otp_token ELSE req.token IN
         (req.user_id # NoUser /\ session[s].pending = req.user_id
            /\ CorrectCode(req.user_id, code) /\ SocialVerify(s, req))
         => /\ last'.status = 200 /\ last'.tokens = req.user_id
            /\ session'[s].auth = req.user_id
            /\ session'[s].pending = NoUser
            /\ ~session'[s].requires_2fa
            /\ session'[s].provider = "none"]_vars

C11_ExchangeFailure ==
    [][last'.op = "social_login" =>
       \A s \in Sessions, provider \in Providers, x \in Exchanges :
         (x.kind = "error" /\ SocialLogin(s, provider, x))
         => /\ last'.status = 400 /\ last'.kind = "provider_error"
            /\ last'.tokens = NoUser /\ last'.user_id = NoUser
            /\ session'[s].pending = session[s].pending
            /\ session'[s].requires_2fa = session[s].requires_2fa
            /\ session'[s].provider = session[s].provider
            /\ session'[s].auth = session[s].auth
            /\ users' = users]_vars

\* C11 witness: a failed exchange was answered, and the session holds no
\* pending login
C11_Witness ==
    /\ last.op = "social_login" /\ last.kind = "provider_error" /\ last.status = 400
    /\ \A s \in Sessions : session[s].pending = NoUser /\ ~session[s].requires_2fa

\* C12: no user ever has more than one confirmed TOTP device.
C12_OneConfirmedTotp ==
    \A u \in UserIds :
        Cardinality({ d \in 1..Len(totp) : totp[d].user = u /\ totp[d].confirmed }) <= 1

\* C13: no user ever has more than one unconfirmed TOTP device.
C13_OnePendingTotp ==
    \A u \in UserIds :
        Cardinality({ d \in 1..Len(totp) : totp[d].user = u /\ ~totp[d].confirmed }) <= 1

\* C14: confirming the user's own unconfirmed device with the code of that
\* device answers 200, confirms the device and returns exactly ten backup
\* codes; afterwards the user's backup set is exactly the returned codes, and
\* no code generated before is accepted as a second factor for the user.
C14_ConfirmReplacesBackupSet ==
    [][last'.op = "confirm" =>
       \A s \in Sessions, u \in UserIds, d \in 1..MaxDevices :
         (u = last'.user /\ d \in 1..Len(totp)
            /\ totp[d].user = u /\ ~totp[d].confirmed
            /\ TwoFactorVerifySetup(s, u, d, <<"d6", d>>))
         => /\ last'.status = 200
            /\ totp'[d].confirmed /\ totp'[d].user = u
            /\ Cardinality(last'.codes) = 10
            /\ static'[u].exists
            /\ static'[u].tokens = last'.codes
            /\ \A n \in 1..nextToken :
                 /\ n \notin last'.codes
                 /\ (SecondFactor(u, <<"b32", n>>))' = "invalid"]_vars

\* C14 witness: a second confirmation replaced the backup set of the first
C14_Witness ==
    /\ last.op = "confirm" /\ last.status = 200
    /\ last.codes = (BACKUP_CODES + 1)..(2 * BACKUP_CODES)
    /\ static[last.user].tokens = last.codes
    /\ \E d1, d2 \in 1..Len(totp) :
         /\ d1 # d2
         /\ totp[d1].user = last.user /\ totp[d1].confirmed
         /\ totp[d2].user = last.user /\ totp[d2].confirmed

\* what the claims mean by "only pending devices": an unconfirmed TOTP
\* device and no confirmed device
OnlyPending(u) ==
    /\ ~HoldsDevice(u)
    /\ \E d \in 1..Len(totp) : totp[d].user = u /\ ~totp[d].confirmed

ConfirmOnlyByOwner ==
    [][/\ last'.op = "setup" =>
            \A s \in Sessions, u \in UserIds :
              (HoldsDevice(u) /\ TwoFactorSetup(s, u))
              => /\ last'.status = 400 /\ totp' = totp /\ static' = static
       /\ \A d \in 1..Len(totp') :
            (totp'[d].confirmed /\ ~(d <= Len(totp) /\ totp[d].confirmed))
            => /\ d <= Len(totp)
               /\ \E s \in Sessions :
                    /\ session[s].auth = totp[d].user
                    /\ TwoFactorVerifySetup(s, totp[d].user, d, <<"d6", d>>)
       /\ last'.op = "login" =>
            \A s \in Sessions, e \in LoginEmails, n \in LoginNames, p \in Passwords :
              LET u == ResolveUser(e, n) IN
              (u # NoUser /\ OnlyPending(u) /\ Login(s, e, n, p)) => last'.status # 202
      ]_vars

\* C16: a disable request with a password that is not the user's answers
\* 400 invalid password and leaves the user's TOTP devices and backup set as
\* they were.
C16_DisableWrongPassword ==
    [][last'.op = "disable" =>
       \A s \in Sessions, u \in UserIds, p \in Passwords :
         (u \in Pks /\ users[u].password # p /\ TwoFactorDisable(s, u, p))
         => /\ last'.status = 400 /\ last'.kind = "invalid_password"
            /\ totp' = totp
            /\ static' = static]_vars

\* C16 witness: the disable request of a user with a confirmed device and a
\* backup set was refused
C16_Witness ==
    /\ last.op = "disable" /\ last.status = 400 /\ last.kind = "invalid_password"
    /\ \E d \in 1..Len(totp) : totp[d].user = last.user /\ totp[d].confirmed
    /\ static[last.user].exists /\ static[last.user].tokens # {}

\* the codes that were valid for a user once and are not any more: every
\* code while the user holds no device, the code of a deleted TOTP device,
\* and a backup code that was generated and is not in the user's set
Retired(u, code) ==
    \/ ~HoldsDevice(u)
    \/ code[1] = "d6" /\ code[2] \in 1..Len(totp) /\ totp[code[2]].user = NoUser
    \/ code[1] = "b32" /\ code[2] \in 1..nextToken /\ code[2] \notin static[u].tokens

\* C17: a disable request with the user's password deletes all TOTP devices
\* of the user and the backup set, so that the user holds no device; the
\* password login that follows (of the user, whose e-mail is verified)
\* answers 200 with tokens and no challenge; and the second step of the
\* password login accepts no code that is retired for the user.
C17_DisableBackToNone ==
    [][/\ last'.op = "disable" =>
            \A s \in Sessions, u \in UserIds, p \in Passwords :
              (u \in Pks /\ users[u].password = p /\ TwoFactorDisable(s, u, p))
              => /\ last'.status = 200
                 /\ \A d \in 1..Len(totp') : totp'[d].user # u
                 /\ static'[u] = NoStatic
                 /\ ~(user_has_device(u))'
       /\ (last.op = "disable" /\ last.status = 200 /\ last'.op = "login") =>
            \A s \in Sessions, e \in LoginEmails, n \in LoginNames, p \in Passwords :
              LET u == ResolveUser(e, n) IN
              (u # NoUser /\ u = last.user /\ users[u].password = p
                 /\ users[u].ea = "verified" /\ Login(s, e, n, p))
              => /\ last'.status = 200 /\ last'.kind = "ok" /\ last'.tokens = u
                 /\ session'[s].auth = u
       /\ last'.op = "login_verify" =>
            \A s \in Sessions, req \in OneKeyRequests :
              LET u == req.user_id
                  code == IF req.otp_token # <<"blank">> THEN req.otp_token ELSE req.token
              IN
              (u = last'.user /\ u \in Pks /\ code # <<"blank">>
                 /\ Retired(u, code) /\ LoginVerify(s, req))
              => /\ last'.tokens = NoUser /\ last'.status # 200
                 /\ session' = session
      ]_vars

\* C17 witness: after the devices were deleted, the code of the deleted TOTP
\* device was refused in the second step
C17_Witness ==
    /\ last.op = "login_verify" /\ last.status = 400 /\ last.kind = "invalid_code"
    /\ last.code[1] = "d6" /\ last.code[2] \in 1..Len(totp)
    /\ totp[last.code[2]].user = NoUser
    /\ ~HoldsDevice(last.user)

\* C18: a password login with the user's password, of a user whose e-mail is
\* verified, leaves the user active and changes nothing else (an active user
\* is unchanged); every other password login fails for the credentials or for
\* the verification and changes no user.
C18_LoginActivates ==
    [][last'.op = "login" =>
       \A s \in Sessions, e \in LoginEmails, n \in LoginNames, p \in Passwords :
         LET u == ResolveUser(e, n) IN
         Login(s, e, n, p) =>
           IF u # NoUser /\ users[u].password = p /\ users[u].ea = "verified"
           THEN /\ users'[u].is_active
                /\ \A v \in Pks : v # u => users'[v] = users[v]
                /\ users'[u] = [users[u] EXCEPT !.is_active = TRUE]
                /\ users[u].is_active => users' = users
                /\ last'.status \in {200, 202}
           ELSE /\ users' = users
                /\ last'.status = 400
                /\ last'.kind \in {"invalid_credentials", "verification_required"}
      ]_vars

\* C18 witness: a user whom the change of the e-mail address had deactivated
\* is active after a login with tokens
C18_Witness ==
    /\ last.op = "login" /\ last.status = 200 /\ last.tokens = last.user
    /\ users[last.user].email = "c@x.com"
    /\ users[last.user].is_active /\ users[last.user].ea = "verified"

\* C19: a password login for an identifier that resolves to no user and a
\* password login with a wrong password for a known user get the same
\* response, 400 invalid credentials with no other payload, whatever the
\* verification, activity and devices of the known user, and change nothing.
C19_UniformFailure ==
    [][last'.op = "login" =>
       \A s \in Sessions, e \in LoginEmails, n \in LoginNames, p \in Passwords :
         LET u == ResolveUser(e, n) IN
         ((u = NoUser \/ users[u].password # p) /\ Login(s, e, n, p))
         => /\ << last'.status, last'.kind, last'.tokens, last'.user_id,
                  last'.provider, last'.codes, last'.wait >>
               = << 400, "invalid_credentials", NoUser, NoUser, "none", {}, 0 >>
            /\ users' = users /\ session' = session
      ]_vars

\* C19 witness: a wrong password for a known, verified user with a confirmed
\* device was answered with invalid credentials
C19_Witness ==
    /\ last.op = "login" /\ last.status = 400 /\ last.kind = "invalid_credentials"
    /\ last.user \in Pks
    /\ users[last.user].ea = "verified" /\ users[last.user].is_active
    /\ HoldsDevice(last.user)

\* C20: a registration that names an e-mail address (compared without
\* regard to case) or a user name that a user already has is refused and
\* creates nothing; a registration that is accepted creates one user, who is
\* inactive and whose e-mail is unverified; and at no time do two users have
\* e-mail addresses that are equal without regard to case.
C20_UniqueEmails ==
    /\ [][last'.op = "register" =>
          \A r \in SignUpInputs :
            SignUp(r) =>
              /\ (\E v \in Pks : \/ Lower(users[v].email) = Lower(r.email)
                                 \/ users[v].username = r.username)
                 => (last'.status = 400 /\ users' = users)
              /\ last'.status = 201
                 => /\ Len(users') = Len(users) + 1
                    /\ SubSeq(users', 1, Len(users)) = users
                    /\ ~users'[Len(users')].is_active
                    /\ users'[Len(users')].ea = "unverified"
              /\ last'.status \in {201, 400}
         ]_vars
    /\ [](\A u, v \in Pks : u # v => Lower(users[u].email) # Lower(users[v].email))

\* C20 witness: with one user in the table, a registration was refused
C20_Witness ==
    /\ last.op = "register" /\ last.status = 400 /\ last.kind = "duplicate"
    /\ Len(users) = 1

\* C21: a step of update_phone_number, remove_phone_number or
\* send_verification_code that changes or clears a user's number leaves
\* phone_verified false, and phone_verified is true with a new number, or
\* turns true, only by a verification answered 200 for the number the
\* user has afterwards.
C21_ChangeResetsVerified ==
    [][\A u \in 1..Len(users) :
         /\ (/\ last'.op \in {"update_phone", "remove_phone", "send_code"}
             /\ users'[u].phone # users[u].phone)
            => ~users'[u].phone_verified
         /\ (/\ users'[u].phone_verified
             /\ (~users[u].phone_verified \/ users'[u].phone # users[u].phone))
            => /\ last' = Resp("verify_phone", u, 200, "verified")
               /\ \E s \in Sessions, c \in SubmittedCodes :
                      VerifyPhone(s, u, users'[u].phone, c)]_vars

\* a user whose number was verified has updated or removed it
C21_Witness ==
    \E u \in 1..Len(users) :
        /\ last.op \in {"update_phone", "remove_phone"}
        /\ last.user = u
        /\ last.status = 200
        /\ \E i \in 1..Len(rows) : rows[i].user = u /\ rows[i].verified
        /\ ~users[u].phone_verified

\* another account has the number p and has verified it
VerifiedElsewhere(u, p) ==
    \E v \in 1..Len(users) : v # u /\ users[v].phone = p /\ users[v].phone_verified

\* C22: a send request for a number that another account has verified is
\* answered 400 and changes nothing: no verification row, no code
\* generated, the cache with its rate-limit counter and the users as before.
C22_ClaimedNumberRejected ==
    [][\A s \in Sessions, u \in UserIds, p \in Phones, sms_ok \in BOOLEAN :
         (/\ last'.op = "send_code"
          /\ VerifiedElsewhere(u, p)
          /\ SendCode(s, u, p, sms_ok))
         => /\ last' = Resp("send_code", u, 400, "invalid")
            /\ rows' = rows
            /\ nextCode' = nextCode
            /\ cache' = cache
            /\ users' = users]_vars

\* a send request was refused because another account has verified the number
C22_Witness ==
    /\ last = Resp("send_code", last.user, 400, "invalid")
    /\ \E p \in Phones : VerifiedElsewhere(last.user, p)

\* the code c was generated by a send that failed: no row has it
FailedCode(c) == c \in 1..nextCode /\ \A i \in 1..Len(rows) : rows[i].code # c

\* C23: a send whose SMS fails leaves the rows and the cache, with the
\* pending code and the rate-limit counter of the number, as they were,
\* and no later verification with a code of a failed send is answered 200.
C23_FailedSendLeavesNoTrace ==
    [][/\ (last'.op = "send_code" /\ last'.kind = "sms_failed")
          => (rows' = rows /\ cache' = cache)
       /\ \A s \in Sessions, u \in UserIds, p \in Phones, c \in SubmittedCodes :
            (/\ last'.op = "verify_phone"
             /\ FailedCode(c)
             /\ VerifyPhone(s, u, p, c))
            => last'.status # 200]_vars

\* C24: a verification of (u, p) with the code of the newest pending row of
\* (u, p), that row unexpired and with fewer than MAX_ATTEMPTS attempts, is
\* answered 200, marks the row verified and leaves u with the number p
\* verified, in both storage modes and whatever other users requested.
C24_NewestCodeVerifies ==
    [][\A s \in Sessions, u \in UserIds, p \in Phones, c \in SubmittedCodes :
         (/\ last'.op = "verify_phone"
          /\ Pending(u, p) # {}
          /\ rows[Newest(Pending(u, p))].code = c
          /\ ~is_expired(rows[Newest(Pending(u, p))])
          /\ rows[Newest(Pending(u, p))].attempts < MAX_ATTEMPTS
          /\ VerifyPhone(s, u, p, c))
         => /\ last'.status = 200
            /\ rows'[Newest(Pending(u, p))].verified
            /\ users'[u].phone = p
            /\ users'[u].phone_verified]_vars

C26_DuplicateDelivery ==
    [][\A o \in EventOrders :
         (/\ last'.op = "webhook"
          /\ o \in 1..Len(orders)
          /\ orders[o].paid_at # NoTime
          /\ StripeWebhook("signed", TRUE, "payment_intent.succeeded", o))
         => orders' = orders]_vars

\* the units of product p in the lines of a cart
Units(lines, p) == IF p \in DOMAIN lines THEN lines[p] ELSE 0

\* C27: a checkout answered 201 adds one order, pending and not paid, whose
\* total is the sum of quantity times current price over the cart's lines,
\* with one item per line at that quantity and price; the stock of every
\* product is lower by exactly the units ordered, the earlier orders are
\* untouched and the cart is deleted.
C27_CheckoutCreatesOrder ==
    [][\A u \in Buyers, c \in 1..MaxCarts, a \in RequestAddresses,
          email \in BOOLEAN, fields \in BOOLEAN, stripe_ok \in BOOLEAN :
         (/\ last'.op = "checkout"
          /\ last'.status = 201
          /\ Checkout(u, c, a, email, fields, stripe_ok))
         => LET lines == carts[c].lines
                o == orders'[Len(orders')]
            IN /\ Len(orders') = Len(orders) + 1
               /\ SubSeq(orders', 1, Len(orders)) = orders
               /\ o.status = "pending"
               /\ o.paid_at = NoTime
               /\ o.total = Units(lines, 1) * current_price(products[1])
                             + Units(lines, 2) * current_price(products[2])
                             + Units(lines, 3) * current_price(products[3])
               /\ DOMAIN o.items = DOMAIN lines
               /\ \A p \in DOMAIN lines :
                     /\ o.items[p].quantity = lines[p]
                     /\ o.items[p].product_price = current_price(products[p])
               /\ \A p \in DOMAIN products :
                     products'[p].stock_quantity
                        = products[p].stock_quantity - Units(lines, p)
               /\ carts'[c].deleted]_vars

\* a checkout of a cart with two lines was answered 201
C27_Witness ==
    /\ last.op = "checkout"
    /\ last.status = 201
    /\ Cardinality(DOMAIN orders[Len(orders)].items) = 2
    /\ \E c \in 1..Len(carts) : carts[c].deleted
    /\ \E p \in DOMAIN products : products[p].stock_quantity < Catalogue[p].stock_quantity

\* the reasons for which a checkout is to be rejected
Rejected(u, c, a, email, fields) ==
    \/ c \notin 1..Len(carts)
    \/ carts[c].deleted
    \/ DOMAIN carts[c].lines = {}
    \/ \E p \in DOMAIN carts[c].lines : carts[c].lines[p] > products[p].stock_quantity
    \/ (u = NoUser /\ ~email)
    \/ (a = 0 /\ ~fields)
    \/ (a # 0 /\ (a \notin 1..Len(addresses) \/ addresses[a].user # u))

\* C28: a checkout whose cart is not found or empty or holds a line above
\* the stock, or that comes from a guest without e-mail address, or lacks
\* shipping fields, or names an address that is not the user's, is answered
\* 400 and leaves products, carts, orders and addresses as they were: no
\* such request gets another answer, and an answer 400 changes nothing.
C28_RejectedCheckout ==
    [][last'.op = "checkout"
       => /\ last'.status = 400 => UNCHANGED shopVars
          /\ last'.status # 400
             => ~ \E u \in Buyers, c \in 1..MaxCarts, a \in RequestAddresses,
                     email \in BOOLEAN, fields \in BOOLEAN, stripe_ok \in BOOLEAN :
                     /\ Rejected(u, c, a, email, fields)
                     /\ Checkout(u, c, a, email, fields, stripe_ok)]_vars

\* a checkout was rejected because a line is above the stock
C28_Witness ==
    /\ last = Resp("checkout", last.user, 400, "not_enough_stock")
    /\ \E c \in 1..Len(carts) : \E p \in DOMAIN carts[c].lines :
          carts[c].lines[p] > products[p].stock_quantity

\* C29: after an add-item request answered 201 the quantity of the line is
\* at most the stock_quantity of the product.
C29_LineWithinStock ==
    [][\A c \in 1..MaxCarts, p \in RequestProducts, q \in Quantities :
         (/\ last'.op = "add_item"
          /\ last'.status = 201
          /\ AddItem(c, p, q))
         => carts'[c].lines[p] <= products[p].stock_quantity]_vars

\* each user has at most one default address
OneDefaultEach ==
    \A u \in UserIds :
        Cardinality({ a \in 1..Len(addresses) :
                        addresses[a].user = u /\ addresses[a].is_default }) <= 1

\* the row a was saved as default: it is the default of its user, the
\* user's other rows are not default, the rows of other users are as before
SavedAsDefault(u, a) ==
    /\ addresses'[a].user = u
    /\ addresses'[a].is_default
    /\ \A b \in 1..Len(addresses) :
          b # a => /\ addresses'[b].user = addresses[b].user
                   /\ addresses'[b].is_default
                        = (addresses[b].is_default /\ addresses[b].user # u)

\* C30: each user has at most one default address at any time, and a create
\* or update that saves an address as default leaves it default and clears
\* the flag of the other addresses of that user only.
C30_DefaultExclusive ==
    /\ []OneDefaultEach
    /\ [][/\ \A u \in UserIds :
               (last'.op = "create_address" /\ CreateAddress(u, "true"))
               => SavedAsDefault(u, Len(addresses'))
          /\ \A u \in UserIds, a \in 1..MaxAddresses, d \in Flags :
               (/\ last'.op = "update_address"
                /\ last'.status = 200
                /\ UpdateAddress(u, a, d)
                /\ (d = "true" \/ (d = "absent" /\ addresses[a].is_default)))
               => SavedAsDefault(u, a)]_vars

\* a user with a default address has saved another address as default
\* while the other user has a default address too
C30_Witness ==
    \E u \in UserIds, a \in 1..Len(addresses), b \in 1..Len(addresses), c \in 1..Len(addresses) :
        /\ last.op \in {"create_address", "update_address"}
        /\ last.user = u
        /\ a # b
        /\ addresses[a].user = u /\ addresses[a].is_default
        /\ addresses[b].user = u /\ ~addresses[b].is_default
        /\ addresses[c].user \notin {u, NoUser} /\ addresses[c].is_default

\* C31: while no login request has presented the password of "ann", no
\* request of the second step is answered with tokens of "ann".
C31_NoPasswordNoTokens ==
    last.op = "login_verify" => last.tokens # 1


\* C32: in every interleaving of verifications, at most 5 submitted codes
\* are compared with the code of one row, and its attempts never exceed 5.
C32_AtomicAttempts ==
    \A i \in 1..Len(rows) :
        rows[i].compared <= MAX_ATTEMPTS /\ rows[i].attempts <= MAX_ATTEMPTS


\* C33: in every interleaving of requests for codes, the write of the
\* hourly counter of a number raises it by exactly one, and no more than 5
\* codes are dispatched to one number within an hour.
C33_NoLostUpdate ==
    /\ [](\A p \in Phones : SentInHour(p) <= RATE_LIMIT_CODES_PER_HOUR)
    /\ [][\A w \in Workers :
            CountSend(w) =>
                CacheCount(cache'.codes_sent[work[w].phone])
                    = CacheCount(cache.codes_sent[work[w].phone]) + 1]_vars


\* the code c belongs to a record of (u, p) that may still be verified: not
\* expired, not verified, below the ceiling, and no newer code was sent
Eligible(u, p, c) ==
    \E i \in 1..Len(rows) :
        /\ rows[i].user = u /\ rows[i].phone = p /\ rows[i].code = c
        /\ now < rows[i].expires_at
        /\ ~rows[i].verified
        /\ rows[i].attempts < MAX_ATTEMPTS
        /\ ~\E j \in (i + 1)..Len(rows) : rows[j].user = u /\ rows[j].phone = p

\* C34: a verification is answered 200 only when the submitted code is the
\* code of a record that is unexpired, not yet verified, below the attempt
\* ceiling and not followed by a newer send.
C34_OnlyEligibleAccepted ==
    [][\A s \in Sessions, u \in UserIds, p \in Phones, c \in SubmittedCodes :
         (last'.op = "verify_phone" /\ last'.status = 200 /\ VerifyPhone(s, u, p, c))
         => Eligible(u, p, c)]_vars


C36_MismatchCounted ==
    [][\A s \in Sessions, u \in UserIds, p \in Phones, c \in SubmittedCodes :
         (/\ last'.op = "verify_phone"
          /\ Pending(u, p) # {}
          /\ is_valid(rows[Newest(Pending(u, p))])
          /\ rows[Newest(Pending(u, p))].code # c
          /\ VerifyPhone(s, u, p, c))
         => /\ last'.status = 400
            /\ rows'[Newest(Pending(u, p))].attempts
                   = rows[Newest(Pending(u, p))].attempts + 1
            /\ users'[u].phone = users[u].phone
            /\ users'[u].phone_verified = users[u].phone_verified]_vars


\* C37: a second-factor verification of a logged-in user succeeds and marks
\* the session otp_verified when the code is the code of the user's
\* confirmed TOTP device or one of the user's backup codes; otherwise it is
\* answered 400, "2FA not enabled" for a user without a confirmed device
\* and "Invalid token" else, and the session is as before.
C37_SecondFactorVerified ==
    [][\A s \in Sessions, u \in UserIds, c \in Codes, as_list \in BOOLEAN :
         (last'.op = "second_factor" /\ c # Blank /\ TwoFactorVerify(s, u, c, as_list))
         => IF CorrectCode(u, c)
            THEN last'.status = 200 /\ session'[s].otp_verified
            ELSE /\ last'.status = 400
                 /\ last'.kind = IF ConfirmedTotp(u) = {} THEN "no_active_device"
                                 ELSE "invalid_code"
                 /\ session'[s] = session[s]]_vars


\* C38: a request for a code that passes the validation and the rate limit
\* and whose message the gateway accepts is answered 200 and adds one
\* pending record of (u, p) with zero attempts that expires
\* CODE_EXPIRY_MINUTES later, whether or not p is the number stored on u.
C38_SendSucceeds ==
    [][\A s \in Sessions, u \in UserIds, p \in Phones :
         (/\ last'.op = "send_code"
          /\ ~PhoneTaken(u, p)
          /\ can_send_code(p).allowed
          /\ SendCode(s, u, p, TRUE))
         => /\ last'.status = 200
            /\ Len(rows') = Len(rows) + 1
            /\ LET r == rows'[Len(rows')] IN
                  /\ r.user = u /\ r.phone = p /\ ~r.verified
                  /\ r.attempts = 0
                  /\ r.expires_at = r.created_at + CODE_EXPIRY_MINUTES
                  /\ r.created_at = now]_vars


\* the code c was issued to u: a row, or the cached code of a number, has
\* it with the user u
IssuedTo(u, c) ==
    \/ \E i \in 1..Len(rows) : rows[i].code = c /\ rows[i].user = u
    \/ \E q \in Phones : /\ Live(cache.pending_code[q])
                         /\ cache.pending_code[q].code = c
                         /\ cache.pending_code[q].user_id = u

\* no number is verified on two users
VerifiedOnce ==
    \A u, v \in 1..Len(users) :
        (u # v /\ users[u].phone # "none" /\ users[u].phone = users[v].phone)
        => ~(users[u].phone_verified /\ users[v].phone_verified)

\* C39: whatever two users send, verify, update and remove, in any order,
\* no number is verified on both of them, and a verification is answered
\* 200 only for a code that was issued to the user who submits it.
C39_OneOwner ==
    /\ []VerifiedOnce
    /\ [][\A s \in Sessions, u \in UserIds, p \in Phones, c \in 1..MaxPending :
            (last'.op = "verify_phone" /\ last'.status = 200 /\ VerifyPhone(s, u, p, c))
            => IssuedTo(u, c)]_vars

\* a user has verified a number that the other user had requested a code
\* for as well
C39_Witness ==
    /\ last.op = "verify_phone" /\ last.status = 200
    /\ users[last.user].phone_verified
    /\ \E i \in 1..Len(rows) :
          rows[i].user # last.user /\ rows[i].phone = users[last.user].phone


\* the units of product p in the first n orders
RECURSIVE OrderedUpTo(_, _)
OrderedUpTo(p, n) ==
    IF n = 0 THEN 0
    ELSE OrderedUpTo(p, n - 1) + Units([q \in DOMAIN orders[n].items |->
                                            orders[n].items[q].quantity], p)

\* C40: in every interleaving of checkouts of different carts, no stock is
\* negative and the units of a product in the orders created do not exceed
\* the stock the product had before them.
C40_NoOversell ==
    \A p \in DOMAIN products :
        /\ products[p].stock_quantity >= 0
        /\ OrderedUpTo(p, Len(orders)) <= Catalogue[p].stock_quantity

=============================================================================
